---- MODULE Spec2Model ----
(***************************************************************************)
(* The action queue of the puzzle game: Action, ActionGroup and            *)
(* GroupReference, RepeatBlock, RecursiveGroup and RecursiveReference, and *)
(* the ActionQueue that expands its items into a flat list of steps and    *)
(* plays them back under start/pause/resume/stop/update.                   *)
(*                                                                         *)
(* Conventions.  Indices keep the code's 0-based values (expandedIndex,    *)
(* itemIndex, iteration, depth); TLA+ sequences are 1-based, so the step   *)
(* under the cursor is expandedActions[expandedIndex + 1].  An Action's    *)
(* progress is kept as the elapsed milliseconds credited to it, i.e. the   *)
(* code's progress multiplied by the action's duration: progress >= 1 in   *)
(* the code is progress >= duration here, and the clamp to 1 is the clamp  *)
(* to duration.  For a duration that is not positive the quotient          *)
(* deltaTime / duration is negative (duration < 0) or Infinity (duration   *)
(* = 0); ReachesOne states the code's test progress >= 1 on the elapsed    *)
(* milliseconds for each sign of duration.                                 *)
(***************************************************************************)
EXTENDS Integers, Sequences, FiniteSets, TLC

\* ---------------------------------------------------------------- bounds
\* maxSize handed to the ActionQueue constructor (level-configurable)
MaxSize == 2
\* maxDepth of the recursive group of the catalogue
RecDepth == 2
\* the most pre-actions, and the most post-actions, a recursive group is given
MaxBase == 2
\* count of the repeat block of the catalogue
RepCount == 2

\* ------------------------------------------------------------- constants
\* CONFIG.animation.actionDuration, the default duration of an Action
ActionDuration == 300
MAX_REPETITIONS == 99
DEFAULT_REPETITIONS == 2
MAX_ITEMS_IN_REPEAT == 2
MAX_RECURSION_DEPTH == 5
DEFAULT_RECURSION_DEPTH == 3

\* frame deltas handed to update(): half a duration and a whole one
Deltas == {150, 300}
\* the durations a serialized action may carry: negative, zero, the default
Durations == {-ActionDuration, 0, ActionDuration}

ActionType == {"MOVE_UP", "MOVE_DOWN", "MOVE_LEFT", "MOVE_RIGHT", "WAIT"}
\* the action kinds the queue operations of Spec draw from
AddTypes == {"MOVE_UP"}

IDLE == "IDLE"
RUNNING == "RUNNING"
PAUSED == "PAUSED"
COMPLETE == "COMPLETE"
QueueState == {IDLE, RUNNING, PAUSED, COMPLETE}

Min(a, b) == IF a < b THEN a ELSE b
Max(a, b) == IF a > b THEN a ELSE b

\* ---------------------------------------------------------------- Action
\* new Action(type, duration)
NewAction(type, duration) ==
    [type |-> type, duration |-> duration,
     isExecuting |-> FALSE, isComplete |-> FALSE, progress |-> 0]

\* Action.start()
ActionStart(a) ==
    [a EXCEPT !.isExecuting = TRUE, !.isComplete = FALSE, !.progress = 0]

\* this.progress >= 1, on the elapsed milliseconds: elapsed / duration >= 1.
\* A zero duration makes the quotient Infinity for any positive elapsed time;
\* a negative duration makes it negative for any positive elapsed time.
ReachesOne(elapsed, duration) ==
    \/ duration > 0 /\ elapsed >= duration
    \/ duration = 0 /\ elapsed > 0
    \/ duration < 0 /\ elapsed <= duration

\* Action.update with the completion test progress > 1 in place of >= 1
ActionUpdate_StrictlyPast(a, deltaTime) ==
    IF ~a.isExecuting \/ a.isComplete
    THEN a
    ELSE LET p == a.progress + deltaTime
         IN IF p > a.duration
            THEN [a EXCEPT !.progress = a.duration,
                           !.isComplete = TRUE, !.isExecuting = FALSE]
            ELSE [a EXCEPT !.progress = p]

\* progress is NaN: elapsed time is never negative, so -1 is free to stand
\* for it
NaN == -1

\* Action.update(deltaTime): the state the action is left in.  With a zero
\* duration and a zero deltaTime the quotient is 0 / 0 = NaN, progress
\* becomes NaN and stays NaN, and NaN >= 1 is false
ActionUpdate(a, deltaTime) ==
    IF ~a.isExecuting \/ a.isComplete
    THEN a
    ELSE IF a.progress = NaN \/ (a.duration = 0 /\ deltaTime = 0)
    THEN [a EXCEPT !.progress = NaN]
    ELSE LET p == a.progress + deltaTime
         IN IF ReachesOne(p, a.duration)
            THEN [a EXCEPT !.progress = a.duration,
                           !.isComplete = TRUE, !.isExecuting = FALSE]
            ELSE [a EXCEPT !.progress = p]

\* Action.reset()
ActionReset(a) ==
    [a EXCEPT !.isExecuting = FALSE, !.isComplete = FALSE, !.progress = 0]

\* Action.clone()
ActionClone(a) == NewAction(a.type, a.duration)

\* Action.toJSON() with the default duration in place of the action's own
ActionToJSON_DefaultDuration(a) ==
    [type |-> a.type, duration |-> ActionDuration]

\* Action.toJSON(): { type, duration }
ActionToJSON(a) == [type |-> a.type, duration |-> a.duration]

\* ------------------------------------------------- groups (the catalogue)
\* The saved ActionGroup templates, by id: ActionGroup.actions
GroupTemplates ==
    [g1 |-> << NewAction("MOVE_UP", ActionDuration),
               NewAction("MOVE_RIGHT", ActionDuration) >>]

\* ActionGroup.getActions(): fresh clones of the template actions
GroupGetActions(g) ==
    [i \in 1..Len(GroupTemplates[g]) |-> ActionClone(GroupTemplates[g][i])]

\* The saved RecursiveGroup templates, by id
RecursiveTemplates ==
    [r1 |-> [preActions |-> << NewAction("MOVE_RIGHT", ActionDuration) >>,
             postActions |-> << NewAction("MOVE_DOWN", ActionDuration) >>,
             maxDepth |-> RecDepth]]

\* new RecursiveGroup(name)
NewRecursiveGroup ==
    [preActions |-> << >>, postActions |-> << >>,
     maxDepth |-> DEFAULT_RECURSION_DEPTH]

\* RecursiveGroup.addPreAction(action)
RecAddPreAction(g, action) ==
    [g EXCEPT !.preActions = Append(g.preActions, ActionClone(action))]

\* RecursiveGroup.addPostAction(action)
RecAddPostAction(g, action) ==
    [g EXCEPT !.postActions = Append(g.postActions, ActionClone(action))]

\* RecursiveGroup.setMaxDepth(depth)
RecSetMaxDepth(g, depth) ==
    [g EXCEPT !.maxDepth = Max(1, Min(MAX_RECURSION_DEPTH, depth))]

\* RecursiveGroup.clone()
RecClone(g) ==
    [preActions |-> [i \in 1..Len(g.preActions) |-> ActionClone(g.preActions[i])],
     postActions |-> [i \in 1..Len(g.postActions) |-> ActionClone(g.postActions[i])],
     maxDepth |-> g.maxDepth]

\* RecursiveGroup.fromJSON(json): json.maxDepth is stored as it comes
RecFromJSON(json) ==
    [preActions |-> [i \in 1..Len(json.preActions) |->
                       NewAction(json.preActions[i].type,
                                 json.preActions[i].duration)],
     postActions |-> [i \in 1..Len(json.postActions) |->
                        NewAction(json.postActions[i].type,
                                  json.postActions[i].duration)],
     maxDepth |-> json.maxDepth]

\* RecursiveGroup.getTotalActionCount(): baseSize * maxDepth
RecGetTotalActionCount(g) ==
    (Len(g.preActions) + Len(g.postActions)) * g.maxDepth

\* getExpandedActions that pushes the post-actions ahead of the nested call
RECURSIVE RecGetExpandedActions_PostBeforeNested(_, _)
RecGetExpandedActions_PostBeforeNested(rg, depth) ==
    IF depth >= rg.maxDepth
    THEN << >>
    ELSE LET isBaseCase == (depth = rg.maxDepth - 1)
             pre == [i \in 1..Len(rg.preActions) |->
                       [action |-> ActionClone(rg.preActions[i]),
                        depth |-> depth, phase |-> "pre",
                        actionIndex |-> i - 1,
                        isBaseCase |-> FALSE,
                        isFirstAtDepth |-> (i - 1 = 0),
                        isLastAtDepth |-> FALSE]]
             nested == IF ~isBaseCase
                       THEN RecGetExpandedActions_PostBeforeNested(rg, depth + 1)
                       ELSE << >>
             post == [i \in 1..Len(rg.postActions) |->
                       [action |-> ActionClone(rg.postActions[i]),
                        depth |-> depth, phase |-> "post",
                        actionIndex |-> i - 1,
                        isBaseCase |-> (isBaseCase /\ i - 1 = 0),
                        isFirstAtDepth |-> FALSE,
                        isLastAtDepth |-> (i - 1 = Len(rg.postActions) - 1)]]
         IN pre \o post \o nested

\* getExpandedActions that flags every post-action of the deepest level as
\* the base case
RECURSIVE RecGetExpandedActions_EveryPostIsBase(_, _)
RecGetExpandedActions_EveryPostIsBase(rg, depth) ==
    IF depth >= rg.maxDepth
    THEN << >>
    ELSE LET isBaseCase == (depth = rg.maxDepth - 1)
             pre == [i \in 1..Len(rg.preActions) |->
                       [action |-> ActionClone(rg.preActions[i]),
                        depth |-> depth, phase |-> "pre",
                        actionIndex |-> i - 1,
                        isBaseCase |-> FALSE,
                        isFirstAtDepth |-> (i - 1 = 0),
                        isLastAtDepth |-> FALSE]]
             nested == IF ~isBaseCase
                       THEN RecGetExpandedActions_EveryPostIsBase(rg, depth + 1)
                       ELSE << >>
             post == [i \in 1..Len(rg.postActions) |->
                       [action |-> ActionClone(rg.postActions[i]),
                        depth |-> depth, phase |-> "post",
                        actionIndex |-> i - 1,
                        isBaseCase |-> isBaseCase,
                        isFirstAtDepth |-> FALSE,
                        isLastAtDepth |-> (i - 1 = Len(rg.postActions) - 1)]]
         IN pre \o nested \o post

\* RecursiveGroup.getExpandedActions(depth) of a group record rg
RECURSIVE RecGetExpandedActions(_, _)
RecGetExpandedActions(rg, depth) ==
    IF depth >= rg.maxDepth
    THEN << >>
    ELSE LET isBaseCase == (depth = rg.maxDepth - 1)
             pre == [i \in 1..Len(rg.preActions) |->
                       [action |-> ActionClone(rg.preActions[i]),
                        depth |-> depth, phase |-> "pre",
                        actionIndex |-> i - 1,
                        isBaseCase |-> FALSE,
                        isFirstAtDepth |-> (i - 1 = 0),
                        isLastAtDepth |-> FALSE]]
             nested == IF ~isBaseCase
                       THEN RecGetExpandedActions(rg, depth + 1)
                       ELSE << >>
             post == [i \in 1..Len(rg.postActions) |->
                       [action |-> ActionClone(rg.postActions[i]),
                        depth |-> depth, phase |-> "post",
                        actionIndex |-> i - 1,
                        isBaseCase |-> (isBaseCase /\ i - 1 = 0),
                        isFirstAtDepth |-> FALSE,
                        isLastAtDepth |-> (i - 1 = Len(rg.postActions) - 1)]]
         IN pre \o nested \o post

\* ------------------------------------------------------------ queue items
\* One shape for the four kinds of item the queue holds.  A plain Action is
\* the item itself (type, duration, progress and flags); a GroupReference
\* and a RecursiveReference name their group; a RepeatBlock owns count and
\* its items.  isExecuting/isComplete are the item's own flags.
Item(kind, type, group, count, sub) ==
    [kind |-> kind, type |-> type, duration |-> ActionDuration,
     isExecuting |-> FALSE, isComplete |-> FALSE, progress |-> 0,
     group |-> group, count |-> count, items |-> sub]

\* new Action(actionType), as addByType builds it
ActionItem(type) == Item("action", type, "none", 0, << >>)
\* Action.fromJSON(data): new Action(data.type, data.duration)
ActionFromJSON(data) ==
    [ActionItem(data.type) EXCEPT !.duration = data.duration]
\* new GroupReference(group)
GroupReference(g) == Item("groupRef", "none", g, 0, << >>)
\* new RecursiveReference(group)
RecursiveReference(r) == Item("recRef", "none", r, 0, << >>)
\* a RepeatBlock with the given count and items
RepeatBlock(count, sub) ==
    Item("repeat", "none", "none", Min(Max(1, count), MAX_REPETITIONS), sub)

\* the Action an item of kind "action" is
ItemAction(it) ==
    [type |-> it.type, duration |-> it.duration,
     isExecuting |-> it.isExecuting, isComplete |-> it.isComplete,
     progress |-> it.progress]

\* item.reset(): Action.reset, GroupReference.reset, RepeatBlock.reset and
\* RecursiveReference.reset all clear the item's flags; Action.reset also
\* zeroes progress (the other kinds carry no progress)
ItemReset(it) ==
    [it EXCEPT !.isExecuting = FALSE, !.isComplete = FALSE, !.progress = 0]

\* what identifies an item apart from its execution state
ItemCore(it) ==
    [kind |-> it.kind, type |-> it.type, duration |-> it.duration,
     group |-> it.group, count |-> it.count, items |-> it.items]

\* new RepeatBlock(count)
NewRepeatBlock(count) == RepeatBlock(count, << >>)

\* item.clone is defined: Action, GroupReference and RepeatBlock have a
\* clone method, RecursiveReference has none
HasClone(item) == item.kind # "recRef"

\* item.clone(): Action.clone is new Action(type, duration),
\* GroupReference.clone is a new reference to the same group, and
\* RepeatBlock.clone is a new block of the same count holding the clones of
\* the items that have a clone method
RECURSIVE ItemClone(_)
RECURSIVE RepeatClone(_)
ItemClone(item) ==
    IF item.kind = "action"
    THEN [ActionItem(item.type) EXCEPT !.duration = item.duration]
    ELSE IF item.kind = "groupRef"
    THEN GroupReference(item.group)
    ELSE RepeatClone(item)

RepeatClone(b) ==
    LET kept == SelectSeq(b.items, HasClone)
    IN RepeatBlock(b.count, [i \in 1..Len(kept) |-> ItemClone(kept[i])])

\* RepeatBlock.isFull
RepeatIsFull(b) == Len(b.items) >= MAX_ITEMS_IN_REPEAT

\* what addItem(item) returns
RepeatAddItemReturns(b, item) == Len(b.items) < MAX_ITEMS_IN_REPEAT

RepeatAddItem_NoLimit(b, item) ==
    [b EXCEPT !.items =
        Append(@, IF HasClone(item) THEN ItemClone(item) ELSE item)]

\* addItem(item): the block after the call
RepeatAddItem(b, item) ==
    IF Len(b.items) >= MAX_ITEMS_IN_REPEAT
    THEN b
    ELSE [b EXCEPT !.items =
            Append(@, IF HasClone(item) THEN ItemClone(item) ELSE item)]

RepeatSetCount_UpperBoundOnly(b, count) ==
    [b EXCEPT !.count = Min(count, MAX_REPETITIONS)]

\* setCount(count)
RepeatSetCount(b, count) ==
    [b EXCEPT !.count = Min(Max(1, count), MAX_REPETITIONS)]

\* increment()
RepeatIncrement(b) ==
    IF b.count < MAX_REPETITIONS THEN [b EXCEPT !.count = @ + 1] ELSE b

\* decrement()
RepeatDecrement(b) ==
    IF b.count > 1 THEN [b EXCEPT !.count = @ - 1] ELSE b

\* Game.changeRepeatCount(delta) on the block being built: the game's own
\* repeatCount moves by delta, is clamped, and is assigned to block.count
ChangeRepeatCount(b, repeatCount, delta) ==
    [b EXCEPT !.count = Max(1, Min(MAX_REPETITIONS, repeatCount + delta))]

\* RepeatBlock.getTotalActionCount(): a group reference counts its group's
\* size, any other item (none has a size property) counts 1
RepeatGetTotalActionCount(b) ==
    LET n(item) == IF item.kind = "groupRef"
                   THEN Len(GroupTemplates[item.group])
                   ELSE 1
        RECURSIVE Sum(_)
        Sum(k) == IF k = 0 THEN 0 ELSE Sum(k - 1) + n(b.items[k])
    IN Sum(Len(b.items)) * b.count

\* RepeatBlock.getExpandedActions(): iteration-major, item-minor.  The
\* actions one item contributes: a group reference gives clones of its
\* group's actions; an item with getActions (a RecursiveReference) gives
\* the actions of its expansion as they are; any other item gives
\* item.clone(), which for a nested RepeatBlock is a block, not an Action
RepeatItemActions(sub) ==
    IF sub.kind = "groupRef"
    THEN LET acts == GroupGetActions(sub.group)
         IN [i \in 1..Len(acts) |-> ActionClone(acts[i])]
    ELSE IF sub.kind = "recRef"
    THEN LET er == RecGetExpandedActions(RecursiveTemplates[sub.group], 0)
         IN [i \in 1..Len(er) |-> er[i].action]
    ELSE IF sub.kind = "repeat"
    THEN << RepeatClone(sub) >>
    ELSE << ActionClone(ItemAction(sub)) >>

RECURSIVE RepeatOneIteration(_, _, _)
RepeatOneIteration(rb, iteration, k) ==
    IF k > Len(rb.items)
    THEN << >>
    ELSE LET acts == RepeatItemActions(rb.items[k])
         IN [i \in 1..Len(acts) |->
               [action |-> acts[i], iteration |-> iteration]]
            \o RepeatOneIteration(rb, iteration, k + 1)

\* the entries of the iterations first..(beyond - 1), in order; the range is
\* halved so that a count of MAX_REPETITIONS nests only a few levels deep
RECURSIVE RepeatIterations(_, _, _)
RepeatIterations(rb, first, beyond) ==
    IF first >= beyond
    THEN << >>
    ELSE IF beyond = first + 1
    THEN RepeatOneIteration(rb, first, 1)
    ELSE LET middle == (first + beyond) \div 2
         IN RepeatIterations(rb, first, middle)
            \o RepeatIterations(rb, middle, beyond)

\* the entries of the iterations from iteration up to count - 1
RepeatFrom(rb, iteration) == RepeatIterations(rb, iteration, rb.count)

RepeatGetExpandedActions_ItemMajor(rb) ==
    LET one == RepeatOneIteration(rb, 0, 1)
    IN [j \in 1..(Len(one) * rb.count) |->
          [action |-> one[((j - 1) \div rb.count) + 1].action,
           iteration |-> (j - 1) % rb.count]]

RepeatGetExpandedActions(rb) == RepeatFrom(rb, 0)

\* ------------------------------------------------------------- expansion
\* The entry expandItems() pushes for a plain action; the other kinds
\* override fields of it.  obj is the reference the entry holds to the item
\* it came from (repeatBlock / groupRef / recursiveRef, or the Action itself
\* for a plain action): the item's position in items, 0 once that item has
\* left the queue.  The fields the code leaves undefined are FALSE / 0.
PlainStep(action, itemIndex) ==
    [action |-> action, itemIndex |-> itemIndex, obj |-> itemIndex + 1,
     isFromGroup |-> FALSE, isFromRepeat |-> FALSE, isFromRecursion |-> FALSE,
     repeatBlock |-> FALSE, recursiveRef |-> FALSE, groupRef |-> FALSE,
     recursionDepth |-> 0, recursionPhase |-> "null",
     isBaseCase |-> FALSE, isFirstAtDepth |-> FALSE, isLastAtDepth |-> FALSE,
     iteration |-> 0, totalIterations |-> 1,
     isFirstInIteration |-> FALSE, isLastInIteration |-> FALSE,
     isFirstInRepeat |-> FALSE, isLastInRepeat |-> FALSE,
     isFirstInRecursion |-> FALSE, isLastInRecursion |-> FALSE,
     actionIndexInGroup |-> -1,
     isFirstInGroup |-> FALSE, isLastInGroup |-> FALSE]

ExpandRepeat_IterationEndsWithBlock(item, itemIndex) ==
    LET er == RepeatGetExpandedActions(item)
    IN [k \in 1..Len(er) |->
         [PlainStep(er[k].action, itemIndex) EXCEPT
            !.isFromRepeat = TRUE,
            !.repeatBlock = TRUE,
            !.iteration = er[k].iteration,
            !.totalIterations = item.count,
            !.isFirstInIteration =
                (er[k].iteration # (IF k = 1 THEN -1 ELSE er[k-1].iteration)),
            !.isLastInIteration = (k = Len(er)),
            !.isFirstInRepeat = (k = 1),
            !.isLastInRepeat = (k = Len(er))]]

ExpandRepeat(item, itemIndex) ==
    LET er == RepeatGetExpandedActions(item)
    IN [k \in 1..Len(er) |->
         [PlainStep(er[k].action, itemIndex) EXCEPT
            !.isFromRepeat = TRUE,
            !.repeatBlock = TRUE,
            !.iteration = er[k].iteration,
            !.totalIterations = item.count,
            !.isFirstInIteration =
                (er[k].iteration # (IF k = 1 THEN -1 ELSE er[k-1].iteration)),
            !.isLastInIteration =
                (k = Len(er) \/ er[k+1].iteration # er[k].iteration),
            !.isFirstInRepeat = (k = 1),
            !.isLastInRepeat = (k = Len(er))]]

ExpandGroup(item, itemIndex) ==
    LET actions == GroupGetActions(item.group)
    IN [k \in 1..Len(actions) |->
         [PlainStep(actions[k], itemIndex) EXCEPT
            !.isFromGroup = TRUE,
            !.groupRef = TRUE,
            !.actionIndexInGroup = k - 1,
            !.isFirstInGroup = (k = 1),
            !.isLastInGroup = (k = Len(actions))]]

\* expandItems(): the entries of a RecursiveReference to the group given
ExpandRecursiveOf(group, itemIndex) ==
    LET er == RecGetExpandedActions(group, 0)
    IN [k \in 1..Len(er) |->
         [PlainStep(er[k].action, itemIndex) EXCEPT
            !.isFromRecursion = TRUE,
            !.recursiveRef = TRUE,
            !.recursionDepth = er[k].depth,
            !.recursionPhase = er[k].phase,
            !.isBaseCase = er[k].isBaseCase,
            !.isFirstAtDepth = er[k].isFirstAtDepth,
            !.isLastAtDepth = er[k].isLastAtDepth,
            !.isFirstInRecursion = (k = 1),
            !.isLastInRecursion = (k = Len(er))]]

ExpandRecursive(item, itemIndex) ==
    ExpandRecursiveOf(RecursiveTemplates[item.group], itemIndex)

\* the entries of one item; a plain action is pushed as the item itself
ExpandItem(item, itemIndex) ==
    IF item.kind = "repeat" THEN ExpandRepeat(item, itemIndex)
    ELSE IF item.kind = "groupRef" THEN ExpandGroup(item, itemIndex)
    ELSE IF item.kind = "recRef" THEN ExpandRecursive(item, itemIndex)
    ELSE << PlainStep(ItemAction(item), itemIndex) >>

RECURSIVE ExpandFrom_CountsFromOne(_, _)
ExpandFrom_CountsFromOne(its, k) ==
    IF k > Len(its)
    THEN << >>
    ELSE ExpandItem(its[k], k) \o ExpandFrom_CountsFromOne(its, k + 1)

RECURSIVE ExpandFrom(_, _)
ExpandFrom(its, k) ==
    IF k > Len(its)
    THEN << >>
    ELSE ExpandItem(its[k], k - 1) \o ExpandFrom(its, k + 1)

\* ActionQueue.expandItems(): the new value of expandedActions
ExpandItems(its) == ExpandFrom(its, 1)


\* ------------------------------------------------------------- callbacks
\* One record per callback invocation: the slot, the value of expandedIndex
\* when it fired (at), and the arguments the queue passes that the handlers
\* of the game read (item index, iteration, recursion depth and phase).
Event(cb, at, info) ==
    [cb |-> cb, at |-> at, itemIndex |-> info.itemIndex,
     iteration |-> info.iteration, depth |-> info.recursionDepth,
     phase |-> info.recursionPhase]

\* a callback invoked without step arguments (onQueueComplete, onQueueChange)
BareEvent(cb, at) ==
    [cb |-> cb, at |-> at, itemIndex |-> -1,
     iteration |-> -1, depth |-> -1, phase |-> "null"]

When(cond, ev) == IF cond THEN << ev >> ELSE << >>

\* ActionQueue.notifyChange()
NotifyChange(q) == << BareEvent("onQueueChange", q.expandedIndex) >>

\* ----------------------------------------------------------- the queue q
\* q = [items, state, expandedActions, expandedIndex]; every operation
\* yields [q, fired, path]: the queue it leaves, the callbacks it invoked in
\* order, and the values it assigned to this.state in order.
Result(q, fired, path) == [q |-> q, fired |-> fired, path |-> path]

\* new ActionQueue(maxSize)
NewQueue ==
    [items |-> << >>, state |-> IDLE,
     expandedActions |-> << >>, expandedIndex |-> 0]

\* ActionQueue.getCurrentItemInfo() is non-null
HasCurrent(q) == q.expandedIndex < Len(q.expandedActions)

\* ActionQueue.getCurrentItemInfo()
GetCurrentItemInfo(q) == q.expandedActions[q.expandedIndex + 1]

IsPlainStep(info) ==
    ~info.isFromGroup /\ ~info.isFromRepeat /\ ~info.isFromRecursion

\* SetCurrentAction that keeps the flags of the action but not its progress
SetCurrentAction_DropsProgress(q, a) ==
    LET k == q.expandedIndex + 1
        info == q.expandedActions[k]
        kept == [a EXCEPT !.progress = IF a.isComplete THEN a.progress ELSE 0]
    IN [q EXCEPT
          !.expandedActions = [q.expandedActions EXCEPT ![k].action = kept],
          !.items = IF IsPlainStep(info) /\ info.obj # 0
                    THEN [q.items EXCEPT
                            ![info.obj].isExecuting = kept.isExecuting,
                            ![info.obj].isComplete = kept.isComplete,
                            ![info.obj].progress = kept.progress]
                    ELSE q.items]

\* Assigning the Action of the step under the cursor.  For a plain action
\* the step's action IS the queue item, so the item changes with it for as
\* long as it is still in items.
SetCurrentAction(q, a) ==
    LET k == q.expandedIndex + 1
        info == q.expandedActions[k]
    IN [q EXCEPT
          !.expandedActions = [q.expandedActions EXCEPT ![k].action = a],
          !.items = IF IsPlainStep(info) /\ info.obj # 0
                    THEN [q.items EXCEPT
                            ![info.obj].isExecuting = a.isExecuting,
                            ![info.obj].isComplete = a.isComplete,
                            ![info.obj].progress = a.progress]
                    ELSE q.items]

\* info.repeatBlock.isExecuting = true (and the same for groupRef and
\* recursiveRef): the flag of the item the step came from
MarkExecuting(its, info) ==
    IF info.obj # 0
    THEN [its EXCEPT ![info.obj].isExecuting = TRUE]
    ELSE its

\* info.repeatBlock.isComplete = true; info.repeatBlock.isExecuting = false
MarkComplete(its, info) ==
    IF info.obj # 0
    THEN [its EXCEPT ![info.obj].isComplete = TRUE,
                     ![info.obj].isExecuting = FALSE]
    ELSE its

\* the opening boundary callbacks of start() and update(), in code order
OpeningCallbacks(info, at) ==
    When(info.isFirstInRepeat /\ info.repeatBlock,
         Event("onRepeatStart", at, info))
    \o When(info.isFirstInIteration /\ info.repeatBlock,
            Event("onRepeatIteration", at, info))
    \o When(info.isFirstInRecursion /\ info.recursiveRef,
            Event("onRecursionStart", at, info))
    \o When(info.isFromRecursion /\ info.isFirstAtDepth,
            Event("onRecursionDepthChange", at, info))
    \o When(info.isFirstInGroup /\ info.groupRef,
            Event("onGroupStart", at, info))

OpensOwner(info) ==
    \/ info.isFirstInRepeat /\ info.repeatBlock
    \/ info.isFirstInRecursion /\ info.recursiveRef
    \/ info.isFirstInGroup /\ info.groupRef

\* BeginCurrent with onActionStart invoked ahead of the opening callbacks
BeginCurrent_ActionStartFirst(q) ==
    LET info == q.expandedActions[q.expandedIndex + 1]
        q1 == SetCurrentAction(q, ActionStart(info.action))
        q2 == IF OpensOwner(info)
              THEN [q1 EXCEPT !.items = MarkExecuting(q1.items, info)]
              ELSE q1
    IN Result(q2,
              << Event("onActionStart", q.expandedIndex, info) >>
              \o OpeningCallbacks(info, q.expandedIndex),
              << >>)

\* The step under the cursor is started: action.start(), the owner's
\* isExecuting flag, the opening callbacks, then onActionStart.
BeginCurrent(q) ==
    LET info == GetCurrentItemInfo(q)
        q1 == SetCurrentAction(q, ActionStart(info.action))
        q2 == IF OpensOwner(info)
              THEN [q1 EXCEPT !.items = MarkExecuting(q1.items, info)]
              ELSE q1
    IN Result(q2,
              OpeningCallbacks(info, q.expandedIndex)
              \o << Event("onActionStart", q.expandedIndex, info) >>,
              << >>)

\* reset() without the loop that resets the items
QueueReset_KeepItemFlags(q) ==
    [q EXCEPT !.expandedIndex = 0, !.state = IDLE,
              !.expandedActions = << >>]

\* ActionQueue.reset()
QueueReset(q) ==
    [q EXCEPT !.expandedIndex = 0, !.state = IDLE,
              !.expandedActions = << >>,
              !.items = [i \in 1..Len(q.items) |-> ItemReset(q.items[i])]]

\* ActionQueue.stop()
QueueStop(q) == Result(QueueReset([q EXCEPT !.state = IDLE]),
                       << >>, << IDLE, IDLE >>)

\* the value ActionQueue.add(item) returns
QueueAddReturns(q, item) ==
    IF Len(q.items) >= MaxSize THEN FALSE
    ELSE IF q.state = RUNNING THEN FALSE
    ELSE TRUE

\* add() without the test that the queue is running
QueueAdd_NoRunningGuard(q, item) ==
    IF Len(q.items) >= MaxSize THEN Result(q, << >>, << >>)
    ELSE LET q1 == [q EXCEPT !.items = Append(q.items, item)]
         IN Result(q1, NotifyChange(q1), << >>)

\* ActionQueue.add(item)
QueueAdd(q, item) ==
    IF Len(q.items) >= MaxSize THEN Result(q, << >>, << >>)
    ELSE IF q.state = RUNNING THEN Result(q, << >>, << >>)
    ELSE LET q1 == [q EXCEPT !.items = Append(q.items, item)]
         IN Result(q1, NotifyChange(q1), << >>)

\* the references the expanded steps hold after items.splice(index, 1)
Detach(steps, index) ==
    [k \in 1..Len(steps) |->
       [steps[k] EXCEPT !.obj = IF steps[k].obj = index + 1 THEN 0
                                 ELSE IF steps[k].obj > index + 1
                                      THEN steps[k].obj - 1
                                      ELSE steps[k].obj]]

\* the value ActionQueue.removeAt(index) returns: the removed item as a
\* one-element sequence, or the empty sequence for null
QueueRemoveAtReturns(q, index) ==
    IF q.state = RUNNING THEN << >>
    ELSE IF index < 0 \/ index >= Len(q.items) THEN << >>
    ELSE << q.items[index + 1] >>

\* removeAt() without the test that the queue is running
QueueRemoveAt_NoRunningGuard(q, index) ==
    IF index < 0 \/ index >= Len(q.items) THEN Result(q, << >>, << >>)
    ELSE LET q1 == [q EXCEPT
                      !.items = [i \in 1..(Len(q.items) - 1) |->
                                   IF i < index + 1 THEN q.items[i]
                                   ELSE q.items[i + 1]],
                      !.expandedActions = Detach(q.expandedActions, index)]
         IN Result(q1, NotifyChange(q1), << >>)

\* removeAt() without the test of the index: items.splice(index, 1) counts a
\* negative index from the end and removes nothing past the end
QueueRemoveAt_NoIndexCheck(q, index) ==
    IF q.state = RUNNING THEN Result(q, << >>, << >>)
    ELSE LET at == IF index < 0 THEN Max(Len(q.items) + index, 0) ELSE index
         IN IF at >= Len(q.items) THEN Result(q, NotifyChange(q), << >>)
            ELSE LET q1 == [q EXCEPT
                              !.items = [i \in 1..(Len(q.items) - 1) |->
                                           IF i < at + 1 THEN q.items[i]
                                           ELSE q.items[i + 1]],
                              !.expandedActions = Detach(q.expandedActions, at)]
                 IN Result(q1, NotifyChange(q1), << >>)

\* ActionQueue.removeAt(index)
QueueRemoveAt(q, index) ==
    IF q.state = RUNNING THEN Result(q, << >>, << >>)
    ELSE IF index < 0 \/ index >= Len(q.items) THEN Result(q, << >>, << >>)
    ELSE LET q1 == [q EXCEPT
                      !.items = [i \in 1..(Len(q.items) - 1) |->
                                   IF i < index + 1 THEN q.items[i]
                                   ELSE q.items[i + 1]],
                      !.expandedActions = Detach(q.expandedActions, index)]
         IN Result(q1, NotifyChange(q1), << >>)

\* ActionQueue.removeLast()
QueueRemoveLast(q) == QueueRemoveAt(q, Len(q.items) - 1)

\* clear() that returns at once while the queue is running
QueueClear_RejectedWhileRunning(q) ==
    IF q.state = RUNNING THEN Result(q, << >>, << >>)
    ELSE LET q1 == [q EXCEPT !.items = << >>, !.expandedActions = << >>,
                             !.expandedIndex = 0, !.state = IDLE]
         IN Result(q1, NotifyChange(q1), << IDLE >>)

\* ActionQueue.clear()
QueueClear(q) ==
    LET stopped == IF q.state = RUNNING THEN QueueStop(q)
                   ELSE Result(q, << >>, << >>)
        q1 == [stopped.q EXCEPT !.items = << >>, !.expandedActions = << >>,
                                !.expandedIndex = 0, !.state = IDLE]
    IN Result(q1, stopped.fired \o NotifyChange(q1), stopped.path \o << IDLE >>)

\* the loop of fromJSON(): add() of each decoded action, in order
RECURSIVE AddEach(_, _, _)
AddEach(res, data, k) ==
    IF k > Len(data)
    THEN res
    ELSE LET added == QueueAdd(res.q, ActionFromJSON(data[k]))
         IN AddEach(Result(added.q, res.fired \o added.fired,
                           res.path \o added.path),
                    data, k + 1)

\* fromJSON() that pushes the decoded actions without going through add()
QueueFromJSON_PushesDirectly(q, data) ==
    LET cleared == QueueClear(q)
        q1 == [cleared.q EXCEPT
                 !.items = [k \in 1..Len(data) |-> ActionFromJSON(data[k])]]
    IN Result(q1, cleared.fired \o NotifyChange(q1), cleared.path)

\* ActionQueue.fromJSON(data)
QueueFromJSON(q, data) == AddEach(QueueClear(q), data, 1)

\* start() without the reset() it calls when the queue is Complete
QueueStart_NoAutoReset(q) ==
    IF Len(q.items) = 0 THEN Result(q, << >>, << >>)
    ELSE LET q2 == [q EXCEPT !.expandedActions = ExpandItems(q.items)]
         IN IF Len(q2.expandedActions) = 0 THEN Result(q2, << >>, << >>)
            ELSE LET q3 == [q2 EXCEPT !.state = RUNNING]
                     begun == IF HasCurrent(q3) THEN BeginCurrent(q3)
                              ELSE Result(q3, << >>, << >>)
                 IN Result(begun.q,
                           begun.fired \o NotifyChange(begun.q),
                           << RUNNING >>)

\* ActionQueue.start()
QueueStart(q) ==
    IF Len(q.items) = 0 THEN Result(q, << >>, << >>)
    ELSE LET q1 == IF q.state = COMPLETE THEN QueueReset(q) ELSE q
             p1 == IF q.state = COMPLETE THEN << IDLE >> ELSE << >>
             q2 == [q1 EXCEPT !.expandedActions = ExpandItems(q1.items)]
         IN IF Len(q2.expandedActions) = 0 THEN Result(q2, << >>, p1)
            ELSE LET q3 == [q2 EXCEPT !.state = RUNNING]
                     begun == IF HasCurrent(q3) THEN BeginCurrent(q3)
                              ELSE Result(q3, << >>, << >>)
                 IN Result(begun.q,
                           begun.fired \o NotifyChange(begun.q),
                           p1 \o << RUNNING >>)

\* pause() without the test that the queue is running
QueuePause_Unguarded(q) ==
    Result([q EXCEPT !.state = PAUSED], << >>, << PAUSED >>)

\* ActionQueue.pause()
QueuePause(q) ==
    IF q.state = RUNNING
    THEN Result([q EXCEPT !.state = PAUSED], << >>, << PAUSED >>)
    ELSE Result(q, << >>, << >>)

\* resume() that starts the current action again
QueueResume_Restarts(q) ==
    IF q.state = PAUSED
    THEN LET q1 == [q EXCEPT !.state = RUNNING]
             begun == IF HasCurrent(q1) THEN BeginCurrent(q1)
                      ELSE Result(q1, << >>, << >>)
         IN Result(begun.q, begun.fired, << RUNNING >>)
    ELSE Result(q, << >>, << >>)

\* ActionQueue.resume()
QueueResume(q) ==
    IF q.state = PAUSED
    THEN Result([q EXCEPT !.state = RUNNING], << >>, << RUNNING >>)
    ELSE Result(q, << >>, << >>)

\* ClosingCallbacks that takes the end of every iteration for the end of the
\* repeat block (the test for more iterations is left out)
ClosingCallbacks_EveryIteration(info, at) ==
    When(info.isLastInIteration /\ info.repeatBlock,
         Event("onRepeatComplete", at, info))
    \o When(info.isLastInGroup /\ info.groupRef,
            Event("onGroupComplete", at, info))
    \o When(info.isLastInRecursion /\ info.recursiveRef,
            Event("onRecursionComplete", at, info))

\* the closing boundary callbacks of update(), in code order
ClosingCallbacks(info, at) ==
    When(info.isLastInIteration /\ info.repeatBlock
         /\ ~(info.iteration < info.totalIterations - 1)
         /\ info.isLastInRepeat,
         Event("onRepeatComplete", at, info))
    \o When(info.isLastInGroup /\ info.groupRef,
            Event("onGroupComplete", at, info))
    \o When(info.isLastInRecursion /\ info.recursiveRef,
            Event("onRecursionComplete", at, info))

ClosesOwner(info) ==
    \/ /\ info.isLastInIteration /\ info.repeatBlock
       /\ ~(info.iteration < info.totalIterations - 1)
       /\ info.isLastInRepeat
    \/ info.isLastInGroup /\ info.groupRef
    \/ info.isLastInRecursion /\ info.recursiveRef

\* Advance that declares the queue complete one step early
Advance_OneStepEarly(q) ==
    LET q1 == [q EXCEPT !.expandedIndex = q.expandedIndex + 1]
    IN IF q1.expandedIndex + 1 < Len(q1.expandedActions)
       THEN LET begun == BeginCurrent(q1)
            IN Result(begun.q, begun.fired \o NotifyChange(begun.q), << >>)
       ELSE LET q2 == [q1 EXCEPT !.state = COMPLETE]
            IN Result(q2,
                      << BareEvent("onQueueComplete", q2.expandedIndex) >>
                      \o NotifyChange(q2),
                      << COMPLETE >>)

\* update(): what follows this.expandedIndex++ once an action completed
Advance(q) ==
    LET q1 == [q EXCEPT !.expandedIndex = q.expandedIndex + 1]
    IN IF HasCurrent(q1)
       THEN LET begun == BeginCurrent(q1)
            IN Result(begun.q, begun.fired \o NotifyChange(begun.q), << >>)
       ELSE LET q2 == [q1 EXCEPT !.state = COMPLETE]
            IN Result(q2,
                      << BareEvent("onQueueComplete", q2.expandedIndex) >>
                      \o NotifyChange(q2),
                      << COMPLETE >>)

\* update() that increments the cursor before the closing callbacks
QueueUpdate_AdvanceBeforeClosing(q, deltaTime) ==
    IF q.state # RUNNING THEN Result(q, << >>, << >>)
    ELSE IF ~HasCurrent(q)
    THEN Result([q EXCEPT !.state = COMPLETE],
                << BareEvent("onQueueComplete", q.expandedIndex) >>,
                << COMPLETE >>)
    ELSE LET info == GetCurrentItemInfo(q)
             q1 == SetCurrentAction(q, ActionUpdate(info.action, deltaTime))
             done == GetCurrentItemInfo(q1)
         IN IF ~done.action.isComplete THEN Result(q1, << >>, << >>)
            ELSE LET q2 == IF ClosesOwner(done)
                           THEN [q1 EXCEPT
                                   !.items = MarkComplete(q1.items, done)]
                           ELSE q1
                     next == Advance(q2)
                 IN Result(next.q,
                           << Event("onActionComplete", q.expandedIndex, done) >>
                           \o ClosingCallbacks(done, q.expandedIndex + 1)
                           \o next.fired,
                           next.path)

\* update() that ticks the current action while the queue is Paused as well
QueueUpdate_TicksWhilePaused(q, deltaTime) ==
    IF q.state \notin {RUNNING, PAUSED} THEN Result(q, << >>, << >>)
    ELSE IF ~HasCurrent(q)
    THEN Result([q EXCEPT !.state = COMPLETE],
                << BareEvent("onQueueComplete", q.expandedIndex) >>,
                << COMPLETE >>)
    ELSE LET info == GetCurrentItemInfo(q)
             q1 == SetCurrentAction(q, ActionUpdate(info.action, deltaTime))
             done == GetCurrentItemInfo(q1)
         IN IF ~done.action.isComplete THEN Result(q1, << >>, << >>)
            ELSE LET q2 == IF ClosesOwner(done)
                           THEN [q1 EXCEPT
                                   !.items = MarkComplete(q1.items, done)]
                           ELSE q1
                     next == Advance(q2)
                 IN Result(next.q,
                           << Event("onActionComplete", q.expandedIndex, done) >>
                           \o ClosingCallbacks(done, q.expandedIndex)
                           \o next.fired,
                           next.path)

\* what update(deltaTime) returns: result.action (the cursor of the step
\* whose action it is, or "null") and result.actionComplete
QueueUpdateReturns(q, deltaTime) ==
    IF q.state # RUNNING \/ ~HasCurrent(q)
    THEN [action |-> "null", actionComplete |-> FALSE]
    ELSE [action |-> q.expandedIndex,
          actionComplete |->
              ActionUpdate(GetCurrentItemInfo(q).action, deltaTime).isComplete]

\* update() that credits the time left over by the completed action to the
\* step that follows it
QueueUpdate_CarriesOver(q, deltaTime) ==
    IF q.state # RUNNING THEN Result(q, << >>, << >>)
    ELSE IF ~HasCurrent(q)
    THEN Result([q EXCEPT !.state = COMPLETE],
                << BareEvent("onQueueComplete", q.expandedIndex) >>,
                << COMPLETE >>)
    ELSE LET info == GetCurrentItemInfo(q)
             q1 == SetCurrentAction(q, ActionUpdate(info.action, deltaTime))
             done == GetCurrentItemInfo(q1)
             over == info.action.progress + deltaTime - info.action.duration
         IN IF ~done.action.isComplete THEN Result(q1, << >>, << >>)
            ELSE LET q2 == IF ClosesOwner(done)
                           THEN [q1 EXCEPT
                                   !.items = MarkComplete(q1.items, done)]
                           ELSE q1
                     next == Advance(q2)
                     q3 == IF HasCurrent(next.q)
                           THEN SetCurrentAction(next.q,
                                    [GetCurrentItemInfo(next.q).action
                                       EXCEPT !.progress = over])
                           ELSE next.q
                 IN Result(q3,
                           << Event("onActionComplete", q.expandedIndex, done) >>
                           \o ClosingCallbacks(done, q.expandedIndex)
                           \o next.fired,
                           next.path)

\* ActionQueue.update(deltaTime)
QueueUpdate(q, deltaTime) ==
    IF q.state # RUNNING THEN Result(q, << >>, << >>)
    ELSE IF ~HasCurrent(q)
    THEN Result([q EXCEPT !.state = COMPLETE],
                << BareEvent("onQueueComplete", q.expandedIndex) >>,
                << COMPLETE >>)
    ELSE LET info == GetCurrentItemInfo(q)
             q1 == SetCurrentAction(q, ActionUpdate(info.action, deltaTime))
             done == GetCurrentItemInfo(q1)
         IN IF ~done.action.isComplete THEN Result(q1, << >>, << >>)
            ELSE LET q2 == IF ClosesOwner(done)
                           THEN [q1 EXCEPT
                                   !.items = MarkComplete(q1.items, done)]
                           ELSE q1
                     next == Advance(q2)
                 IN Result(next.q,
                           << Event("onActionComplete", q.expandedIndex, done) >>
                           \o ClosingCallbacks(done, q.expandedIndex)
                           \o next.fired,
                           next.path)

\* ActionQueue.update(deltaTime) with an onActionComplete handler that calls
\* stop() on the queue, as Game.checkTargetCollision does when the ball
\* reaches the finish cell.  stop() resets the queue in the middle of
\* update(); update() then goes on with the currentInfo it read before: it
\* sets the flags of the owner the step closes, fires the closing callbacks,
\* increments the cursor that stop() has just zeroed and looks for the next
\* step in the expansion that stop() has just emptied.
QueueUpdateStopping(q, deltaTime) ==
    IF q.state # RUNNING THEN Result(q, << >>, << >>)
    ELSE IF ~HasCurrent(q)
    THEN Result([q EXCEPT !.state = COMPLETE],
                << BareEvent("onQueueComplete", q.expandedIndex) >>,
                << COMPLETE >>)
    ELSE LET info == GetCurrentItemInfo(q)
             q1 == SetCurrentAction(q, ActionUpdate(info.action, deltaTime))
             done == GetCurrentItemInfo(q1)
         IN IF ~done.action.isComplete THEN Result(q1, << >>, << >>)
            ELSE LET stopped == QueueStop(q1)
                     q2 == IF ClosesOwner(done)
                           THEN [stopped.q EXCEPT
                                   !.items = MarkComplete(stopped.q.items, done)]
                           ELSE stopped.q
                     next == Advance(q2)
                 IN Result(next.q,
                           << Event("onActionComplete", q.expandedIndex, done) >>
                           \o stopped.fired
                           \o ClosingCallbacks(done, q2.expandedIndex)
                           \o next.fired,
                           stopped.path \o next.path)


\* ------------------------------------------- groups and object identity
\* An ActionGroup and a queue holding two GroupReferences to it, with the
\* Action objects kept apart by identity.  actions are the group's own
\* Action objects (ActionGroup.actions); instances are the Action objects
\* that clone() made for the current expansion; a step of the expansion
\* holds a pointer to its Action object: to actions[at] when template is
\* TRUE, to instances[at] otherwise.  refs are the flags of the two
\* references, index and state are the queue's expandedIndex and state.
NewGroupQueue ==
    [actions |-> << >>, instances |-> << >>, steps |-> << >>,
     refs |-> [r \in 1..2 |-> [isExecuting |-> FALSE, isComplete |-> FALSE]],
     index |-> 0, state |-> IDLE]

\* the Action object a pointer leads to, and the store after an assignment
\* through the pointer
Deref(g, p) == IF p.template THEN g.actions[p.at] ELSE g.instances[p.at]

Store(g, p, a) ==
    IF p.template
    THEN [g EXCEPT !.actions[p.at] = a]
    ELSE [g EXCEPT !.instances[p.at] = a]

\* ActionGroup.addAction(action): a clone is pushed
GroupAddAction(g, action) ==
    [g EXCEPT !.actions = Append(@, ActionClone(action))]

HeapGetActions_ReturnsTemplates(g) ==
    [store |-> g,
     pointers |-> [i \in 1..Len(g.actions) |-> [template |-> TRUE, at |-> i]]]

\* ActionGroup.getActions(): one new Action object per action of the group,
\* made by clone(); the store with the new objects, and pointers to them
HeapGetActions(g) ==
    [store |-> [g EXCEPT !.instances =
                   @ \o [i \in 1..Len(g.actions) |-> ActionClone(g.actions[i])]],
     pointers |-> [i \in 1..Len(g.actions) |->
                     [template |-> FALSE, at |-> Len(g.instances) + i]]]

\* the steps expandItems() pushes for reference r from the pointers
\* getActions() returned
GroupSteps(r, pointers) ==
    [k \in 1..Len(pointers) |->
       [ref |-> r, template |-> pointers[k].template, at |-> pointers[k].at,
        isFirstInGroup |-> (k = 1), isLastInGroup |-> (k = Len(pointers))]]

\* expandItems() on the two references: the old expansion is dropped, and
\* with it the objects only its steps pointed to
GroupExpandItems(g) ==
    LET first == HeapGetActions([g EXCEPT !.instances = << >>, !.steps = << >>])
        second == HeapGetActions(first.store)
    IN [second.store EXCEPT
          !.steps = GroupSteps(1, first.pointers) \o GroupSteps(2, second.pointers)]

\* reset(): the references' flags are cleared and the expansion is dropped
GroupQueueReset(g) ==
    [g EXCEPT !.index = 0, !.state = IDLE, !.steps = << >>, !.instances = << >>,
              !.refs = [r \in 1..2 |-> [isExecuting |-> FALSE,
                                        isComplete |-> FALSE]]]

\* the step under the cursor is begun: its action is started and, on the
\* first step of a reference, the reference is marked executing
GroupBeginCurrent(g) ==
    IF g.index < Len(g.steps)
    THEN LET info == g.steps[g.index + 1]
             started == Store(g, info, ActionStart(Deref(g, info)))
         IN IF info.isFirstInGroup
            THEN [started EXCEPT !.refs[info.ref].isExecuting = TRUE]
            ELSE started
    ELSE g

\* start()
GroupQueueStart(g) ==
    LET expanded == GroupExpandItems(IF g.state = COMPLETE
                                     THEN GroupQueueReset(g) ELSE g)
    IN IF Len(expanded.steps) = 0
       THEN expanded
       ELSE GroupBeginCurrent([expanded EXCEPT !.state = RUNNING])

\* pause(), resume(), stop()
GroupQueuePause(g) ==
    IF g.state = RUNNING THEN [g EXCEPT !.state = PAUSED] ELSE g

GroupQueueResume(g) ==
    IF g.state = PAUSED THEN [g EXCEPT !.state = RUNNING] ELSE g

GroupQueueStop(g) == GroupQueueReset([g EXCEPT !.state = IDLE])

\* update(deltaTime)
GroupQueueUpdate(g, deltaTime) ==
    IF g.state # RUNNING
    THEN g
    ELSE IF g.index >= Len(g.steps)
    THEN [g EXCEPT !.state = COMPLETE]
    ELSE LET info == g.steps[g.index + 1]
             currentAction == ActionUpdate(Deref(g, info), deltaTime)
             updated == Store(g, info, currentAction)
         IN IF ~currentAction.isComplete
            THEN updated
            ELSE LET closed ==
                       IF info.isLastInGroup
                       THEN [updated EXCEPT
                               !.refs[info.ref].isComplete = TRUE,
                               !.refs[info.ref].isExecuting = FALSE]
                       ELSE updated
                     moved == [closed EXCEPT !.index = @ + 1]
                 IN IF moved.index < Len(moved.steps)
                    THEN GroupBeginCurrent(moved)
                    ELSE [moved EXCEPT !.state = COMPLETE]

\* ------------------------------------------------------- the state machine
VARIABLES
    items,            \* ActionQueue.items
    state,            \* ActionQueue.state
    expandedActions,  \* ActionQueue.expandedActions
    expandedIndex,    \* ActionQueue.expandedIndex
    fired,            \* the callbacks the last operation invoked, in order
    path,             \* state on entry to the last operation, then each value
                      \* the operation assigned to it, in order
    started,          \* start() has succeeded at least once
    log,              \* the callbacks invoked since start() (scenario runs)
    nUpd,             \* the update() calls made since start() (scenario runs)
    frame,            \* parity of the animation frame of the game loop
    rg,               \* a RecursiveGroup: preActions, postActions, maxDepth
    expOut,           \* the expandItems() calls made in a row since the last
                      \* queue operation, and what the last of them produced
    rgOut,            \* what getExpandedActions() and getTotalActionCount()
                      \* returned for rg, and the steps expandItems() made
                      \* of two references to rg, until rg changes
    rb,               \* a RepeatBlock: count and items
    rbOut,            \* what the last call on rb returned, until rb changes
    act,              \* an Action (type, duration, progress and flags) and
                      \* the method last called on it
    gp,               \* an ActionGroup, the Action objects made from it, and
                      \* a queue of two references to it that hold them
    twin              \* a second ActionQueue given the same items and the
                      \* same calls, the callbacks its last call invoked,
                      \* and whether it was played to Complete before

vars == << items, state, expandedActions, expandedIndex,
           fired, path, started, log, nUpd, frame, expOut, rg, rgOut,
           rb, rbOut, act, gp, twin >>

queueVars == << items, state, expandedActions, expandedIndex,
                fired, path, started, log, nUpd, frame, expOut >>

recVars == << rg, rgOut >>
repVars == << rb, rbOut >>
actVars == << act >>
grpVars == << gp >>
twinVars == << twin >>

\* the queue as the operations see it
Q == [items |-> items, state |-> state,
      expandedActions |-> expandedActions, expandedIndex |-> expandedIndex]

\* the repeat blocks the authoring flow hands to addRepeatBlock
RepeatCatalogue ==
    { RepeatBlock(RepCount, << ActionItem("MOVE_RIGHT") >>),
      RepeatBlock(RepCount, << >>) }

\* the serialized queues handed to fromJSON: up to one action more than the
\* queue holds, each with one of the durations durs
JSONData(durs) ==
    UNION { [1..n -> [type : AddTypes, duration : durs]] : n \in 0..(MaxSize + 1) }

\* the items the add operations of the state machine hand to the queue
Addable ==
    { ActionItem(t) : t \in AddTypes }
    \cup { GroupReference(g) : g \in DOMAIN GroupTemplates }
    \cup RepeatCatalogue
    \cup { RecursiveReference(r) : r \in DOMAIN RecursiveTemplates }

\* nothing has been asked of rg since it last changed
NoOutput == [valid |-> FALSE, actions |-> << >>, total |-> 0, steps |-> << >>]

\* expandItems() has not been called since the last queue operation
NoExpansion == [calls |-> 0, result |-> << >>]

\* nothing has been asked of rb since it last changed
NoRepeatOutput ==
    [valid |-> FALSE, actions |-> << >>, total |-> 0, returned |-> "none"]

\* the counts handed to the RepeatBlock constructor and to setCount, and the
\* game's repeatCount: below, inside and above 1..MAX_REPETITIONS
CountInputs ==
    {-1, 0, 1, RepCount, MAX_REPETITIONS - 1, MAX_REPETITIONS,
     MAX_REPETITIONS + 1}

\* the items handed to RepeatBlock.addItem
RepeatItems ==
    { ActionItem(t) : t \in {"MOVE_UP", "MOVE_RIGHT"} }
    \cup { GroupReference(g) : g \in DOMAIN GroupTemplates }
    \cup { RecursiveReference(r) : r \in DOMAIN RecursiveTemplates }
    \cup { RepeatBlock(RepCount, << ActionItem("MOVE_RIGHT") >>) }

\* the action kinds the pre- and post-actions of rg are drawn from
RecTypes == {"MOVE_RIGHT", "MOVE_DOWN"}

\* the depths handed to setMaxDepth and found in serialized groups: below,
\* inside and above the range 1..MAX_RECURSION_DEPTH
DepthInputs == -1..(MAX_RECURSION_DEPTH + 2)

\* the action lists of a serialized group
RecJSONActions ==
    UNION { [1..n -> [type : RecTypes, duration : {ActionDuration}]] :
              n \in 0..MaxBase }

\* the serialized groups handed to RecursiveGroup.fromJSON
RecJSON ==
    [preActions : RecJSONActions, postActions : RecJSONActions,
     maxDepth : DepthInputs]

\* the queue is left as the operation result says
Becomes(res) ==
    \E r \in {res} :
       /\ items' = r.q.items
       /\ state' = r.q.state
       /\ expandedActions' = r.q.expandedActions
       /\ expandedIndex' = r.q.expandedIndex
       /\ fired' = r.fired
       /\ path' = << state >> \o r.path
       /\ expOut' = NoExpansion
       /\ UNCHANGED << recVars, repVars, actVars, grpVars, twinVars >>

Init ==
    /\ items = NewQueue.items
    /\ state = NewQueue.state
    /\ expandedActions = NewQueue.expandedActions
    /\ expandedIndex = NewQueue.expandedIndex
    /\ fired = << >>
    /\ path = << IDLE >>
    /\ started = FALSE
    /\ log = << >>
    /\ nUpd = 0
    /\ frame = 0
    /\ expOut = NoExpansion
    /\ rg = NewRecursiveGroup
    /\ rgOut = NoOutput
    /\ rb = NewRepeatBlock(DEFAULT_REPETITIONS)
    /\ rbOut = NoRepeatOutput
    /\ act = [action |-> NewAction("MOVE_UP", ActionDuration),
              called |-> "new"]
    /\ gp = NewGroupQueue
    /\ twin = [q |-> NewQueue, fired |-> << >>, phase |-> "author",
               replay |-> FALSE]

\* start() got as far as this.state = RUNNING
StartSucceeds(res) == \E i \in 1..Len(res.path) : res.path[i] = RUNNING

AddByType ==
    /\ \E t \in AddTypes : Becomes(QueueAdd(Q, ActionItem(t)))
    /\ UNCHANGED << started, log, nUpd, frame >>

AddGroupReference ==
    /\ \E g \in DOMAIN GroupTemplates :
          Becomes(QueueAdd(Q, GroupReference(g)))
    /\ UNCHANGED << started, log, nUpd, frame >>

AddRepeatBlock ==
    /\ \E repeatBlock \in RepeatCatalogue :
          Becomes(QueueAdd(Q, repeatBlock))
    /\ UNCHANGED << started, log, nUpd, frame >>

AddRecursiveReference ==
    /\ \E r \in DOMAIN RecursiveTemplates :
          Becomes(QueueAdd(Q, RecursiveReference(r)))
    /\ UNCHANGED << started, log, nUpd, frame >>

RemoveAt ==
    /\ \E index \in -1..MaxSize : Becomes(QueueRemoveAt(Q, index))
    /\ UNCHANGED << started, log, nUpd, frame >>

RemoveLast ==
    /\ Becomes(QueueRemoveLast(Q))
    /\ UNCHANGED << started, log, nUpd, frame >>

FromJSON ==
    /\ \E data \in JSONData({ActionDuration}) : Becomes(QueueFromJSON(Q, data))
    /\ UNCHANGED << started, log, nUpd, frame >>

Clear ==
    /\ Becomes(QueueClear(Q))
    /\ UNCHANGED << started, log, nUpd, frame >>

Start ==
    /\ Becomes(QueueStart(Q))
    /\ started' = (started \/ StartSucceeds(QueueStart(Q)))
    /\ UNCHANGED << log, nUpd, frame >>

Pause ==
    /\ Becomes(QueuePause(Q))
    /\ UNCHANGED << started, log, nUpd, frame >>

Resume ==
    /\ Becomes(QueueResume(Q))
    /\ UNCHANGED << started, log, nUpd, frame >>

Stop ==
    /\ Becomes(QueueStop(Q))
    /\ UNCHANGED << started, log, nUpd, frame >>

Reset ==
    /\ Becomes(Result(QueueReset(Q), << >>, << IDLE >>))
    /\ UNCHANGED << started, log, nUpd, frame >>

Update ==
    /\ \E deltaTime \in Deltas : Becomes(QueueUpdate(Q, deltaTime))
    /\ UNCHANGED << started, log, nUpd, frame >>

\* Every public operation, called in any state: plain actions and group
\* references are added, removed and played back in any interleaving.
Next ==
    \/ AddByType
    \/ AddGroupReference
    \/ RemoveAt
    \/ RemoveLast
    \/ Clear
    \/ Start
    \/ Pause
    \/ Resume
    \/ Stop
    \/ Reset
    \/ Update

Spec == Init /\ [][Next]_vars

\* Authoring and playback: items of every kind are added, removed and loaded
\* while the queue is Idle, the same operations are attempted while it is
\* Running, and playback is started, paused, resumed, stopped and ticked
\* freely.
Author ==
    /\ state \in {IDLE, RUNNING}
    /\ \/ AddByType
       \/ AddGroupReference
       \/ AddRepeatBlock
       \/ AddRecursiveReference
       \/ RemoveAt
       \/ RemoveLast
       \/ Clear
       \/ FromJSON

NextPlay ==
    \/ Author
    \/ Start
    \/ Pause
    \/ Resume
    \/ Stop
    \/ Update

SpecPlay == Init /\ [][NextPlay]_vars

\* Scenario A of the specification: a queue of plain actions is filled on a
\* fresh queue, started once, and ticked with exactly the actions' duration.
ScenarioAdd ==
    /\ ~started
    /\ \E t \in ActionType : Becomes(QueueAdd(Q, ActionItem(t)))
    /\ UNCHANGED << started, log, nUpd, frame >>

ScenarioStart ==
    /\ ~started
    /\ Becomes(QueueStart(Q))
    /\ started' = StartSucceeds(QueueStart(Q))
    /\ log' = QueueStart(Q).fired
    /\ nUpd' = 0
    /\ UNCHANGED frame

ScenarioUpdate ==
    /\ started
    /\ Becomes(QueueUpdate(Q, ActionDuration))
    /\ log' = log \o QueueUpdate(Q, ActionDuration).fired
    /\ nUpd' = Min(nUpd + 1, MaxSize + 2)
    /\ UNCHANGED << started, frame >>

NextScenarioA == ScenarioAdd \/ ScenarioStart \/ ScenarioUpdate

SpecScenarioA == Init /\ [][NextScenarioA]_vars

\* An uninterrupted run: items of every kind are put together on a fresh
\* queue, start() is called once, and from then on only update() is called,
\* frame after frame, with any of the frame deltas.
RunAuthor ==
    /\ ~started
    /\ \/ AddByType
       \/ AddGroupReference
       \/ AddRepeatBlock
       \/ AddRecursiveReference
       \/ RemoveLast

RunUpdate ==
    /\ started
    /\ \E deltaTime \in Deltas :
          \E res \in {QueueUpdate(Q, deltaTime)} :
             /\ Becomes(res)
             /\ log' = log \o res.fired
    /\ nUpd' = Min(nUpd + 1, 2 * MaxSize)
    /\ frame' = 1 - frame
    /\ UNCHANGED started

NextRun == RunAuthor \/ ScenarioStart \/ RunUpdate

\* The game loop: once playback has started, another animation frame always
\* comes, and every frame calls update() (RunUpdate is the only step of
\* NextRun that changes frame).
Frame == started /\ frame' = 1 - frame

SpecRun == Init /\ [][NextRun]_vars /\ WF_frame(Frame)

\* A saved queue is loaded on a fresh queue, its actions carrying any
\* duration, and played without interruption.  The elapsed time of an action
\* that never completes grows without bound, so the run is followed for a
\* bounded number of frames.
DurLoad ==
    /\ ~started
    /\ \E data \in JSONData(Durations) : Becomes(QueueFromJSON(Q, data))
    /\ UNCHANGED << started, log, nUpd, frame >>

DurUpdate ==
    /\ nUpd < 2 * MaxSize
    /\ RunUpdate

NextDur == DurLoad \/ ScenarioStart \/ DurUpdate

SpecDur == Init /\ [][NextDur]_vars

\* A RecursiveGroup on its own: it is built up action by action, its depth is
\* set, it is cloned, it is replaced by a group decoded from JSON, and it is
\* asked for its expansion and its total action count.
RgAddPreAction ==
    /\ Len(rg.preActions) < MaxBase
    /\ \E t \in RecTypes :
          rg' = RecAddPreAction(rg, NewAction(t, ActionDuration))
    /\ rgOut' = NoOutput
    /\ UNCHANGED << queueVars, repVars, actVars, grpVars, twinVars >>

RgAddPostAction ==
    /\ Len(rg.postActions) < MaxBase
    /\ \E t \in RecTypes :
          rg' = RecAddPostAction(rg, NewAction(t, ActionDuration))
    /\ rgOut' = NoOutput
    /\ UNCHANGED << queueVars, repVars, actVars, grpVars, twinVars >>

RgSetMaxDepth ==
    /\ \E depth \in DepthInputs : rg' = RecSetMaxDepth(rg, depth)
    /\ rgOut' = NoOutput
    /\ UNCHANGED << queueVars, repVars, actVars, grpVars, twinVars >>

RgClone ==
    /\ rg' = RecClone(rg)
    /\ rgOut' = NoOutput
    /\ UNCHANGED << queueVars, repVars, actVars, grpVars, twinVars >>

RgFromJSON ==
    /\ \E json \in RecJSON : rg' = RecFromJSON(json)
    /\ rgOut' = NoOutput
    /\ UNCHANGED << queueVars, repVars, actVars, grpVars, twinVars >>

RgExpand ==
    /\ rgOut' = [valid |-> TRUE,
                 actions |-> RecGetExpandedActions(rg, 0),
                 total |-> RecGetTotalActionCount(rg),
                 steps |-> ExpandRecursiveOf(rg, 0) \o ExpandRecursiveOf(rg, 1)]
    /\ UNCHANGED rg
    /\ UNCHANGED << queueVars, repVars, actVars, grpVars, twinVars >>

NextRec ==
    \/ RgAddPreAction
    \/ RgAddPostAction
    \/ RgSetMaxDepth
    \/ RgClone
    \/ RgFromJSON
    \/ RgExpand

SpecRec == Init /\ [][NextRec]_vars

\* A RepeatBlock on its own: it is constructed, given items, its count is
\* set, stepped up and down and changed by the game while it is being built,
\* it is cloned, and it is asked for its expansion and total action count.
RbNew ==
    /\ \E count \in CountInputs : rb' = NewRepeatBlock(count)
    /\ rbOut' = NoRepeatOutput
    /\ UNCHANGED << queueVars, recVars, actVars, grpVars, twinVars >>

RbAddItem ==
    /\ \E item \in RepeatItems :
          /\ rb' = RepeatAddItem(rb, item)
          /\ rbOut' = [NoRepeatOutput EXCEPT
                         !.returned = IF RepeatAddItemReturns(rb, item)
                                      THEN "true" ELSE "false"]
    /\ UNCHANGED << queueVars, recVars, actVars, grpVars, twinVars >>

RbSetCount ==
    /\ \E count \in CountInputs : rb' = RepeatSetCount(rb, count)
    /\ rbOut' = NoRepeatOutput
    /\ UNCHANGED << queueVars, recVars, actVars, grpVars, twinVars >>

RbIncrement ==
    /\ rb' = RepeatIncrement(rb)
    /\ rbOut' = NoRepeatOutput
    /\ UNCHANGED << queueVars, recVars, actVars, grpVars, twinVars >>

RbDecrement ==
    /\ rb' = RepeatDecrement(rb)
    /\ rbOut' = NoRepeatOutput
    /\ UNCHANGED << queueVars, recVars, actVars, grpVars, twinVars >>

RbChangeRepeatCount ==
    /\ \E repeatCount \in CountInputs \cap (1..MAX_REPETITIONS),
          delta \in {-1, 1} :
          rb' = ChangeRepeatCount(rb, repeatCount, delta)
    /\ rbOut' = NoRepeatOutput
    /\ UNCHANGED << queueVars, recVars, actVars, grpVars, twinVars >>

RbClone ==
    /\ rb' = RepeatClone(rb)
    /\ rbOut' = NoRepeatOutput
    /\ UNCHANGED << queueVars, recVars, actVars, grpVars, twinVars >>

RbExpand ==
    /\ rbOut' = [NoRepeatOutput EXCEPT
                   !.valid = TRUE,
                   !.actions = RepeatGetExpandedActions(rb),
                   !.total = RepeatGetTotalActionCount(rb)]
    /\ UNCHANGED rb
    /\ UNCHANGED << queueVars, recVars, actVars, grpVars, twinVars >>

NextRep ==
    \/ RbNew
    \/ RbAddItem
    \/ RbSetCount
    \/ RbIncrement
    \/ RbDecrement
    \/ RbChangeRepeatCount
    \/ RbClone
    \/ RbExpand

SpecRep == Init /\ [][NextRep]_vars

\* ActionQueue.totalActions: a group reference counts its group's size,
\* every other item counts 1
TotalActions(q) ==
    LET n(item) == IF item.kind = "groupRef"
                   THEN Len(GroupTemplates[item.group])
                   ELSE 1
        RECURSIVE Sum(_)
        Sum(k) == IF k = 0 THEN 0 ELSE Sum(k - 1) + n(q.items[k])
    IN Sum(Len(q.items))

\* The queue authored with every kind of item, then expanded by calls of
\* expandItems(); reset() empties the expansion and authoring goes on.  The repeat blocks are the ones the authoring flow can
\* build: a count, and up to MAX_ITEMS_IN_REPEAT plain actions and group
\* references.
BuiltItems == { ActionItem("MOVE_RIGHT") } \cup
              { GroupReference(g) : g \in DOMAIN GroupTemplates }

BuiltBlocks ==
    { RepeatBlock(count, sub) :
        count \in {1, RepCount + 1},
        sub \in UNION { [1..n -> BuiltItems] : n \in 0..MAX_ITEMS_IN_REPEAT } }

AddBuiltRepeatBlock ==
    /\ \E repeatBlock \in BuiltBlocks :
          Becomes(QueueAdd(Q, repeatBlock))
    /\ UNCHANGED << started, log, nUpd, frame >>

ExpandItemsCall_MarksItems ==
    /\ expandedActions' = ExpandItems(items)
    /\ expOut' = [calls |-> Min(expOut.calls + 1, 2),
                  result |-> ExpandItems(items)]
    /\ items' = [i \in 1..Len(items) |-> [items[i] EXCEPT !.isExecuting = TRUE]]
    /\ UNCHANGED << state, expandedIndex, fired, path,
                    started, log, nUpd, frame >>
    /\ UNCHANGED << recVars, repVars, actVars, grpVars, twinVars >>

\* expandItems() called on the queue: only expandedActions is assigned
ExpandItemsCall ==
    /\ expandedActions' = ExpandItems(items)
    /\ expOut' = [calls |-> Min(expOut.calls + 1, 2),
                  result |-> ExpandItems(items)]
    /\ UNCHANGED << items, state, expandedIndex, fired, path,
                    started, log, nUpd, frame >>
    /\ UNCHANGED << recVars, repVars, actVars, grpVars, twinVars >>

Compose ==
    /\ expandedActions = << >>
    /\ \/ AddByType
       \/ AddGroupReference
       \/ AddBuiltRepeatBlock
       \/ AddRecursiveReference
       \/ RemoveLast

NextExpand ==
    \/ Compose
    \/ Reset
    \/ ExpandItemsCall

SpecExpand == Init /\ [][NextExpand]_vars

\* An ActionGroup is given actions, and a queue of two references to it is
\* started, ticked, paused, resumed and stopped.
GrAddAction ==
    /\ Len(gp.actions) < MaxBase
    /\ \E t \in RecTypes :
          gp' = GroupAddAction(gp, NewAction(t, ActionDuration))
    /\ UNCHANGED << queueVars, recVars, repVars, actVars, twinVars >>

GrStart ==
    /\ gp' = GroupQueueStart(gp)
    /\ UNCHANGED << queueVars, recVars, repVars, actVars, twinVars >>

GrPause ==
    /\ gp' = GroupQueuePause(gp)
    /\ UNCHANGED << queueVars, recVars, repVars, actVars, twinVars >>

GrResume ==
    /\ gp' = GroupQueueResume(gp)
    /\ UNCHANGED << queueVars, recVars, repVars, actVars, twinVars >>

GrStop ==
    /\ gp' = GroupQueueStop(gp)
    /\ UNCHANGED << queueVars, recVars, repVars, actVars, twinVars >>

GrUpdate ==
    /\ \E deltaTime \in Deltas : gp' = GroupQueueUpdate(gp, deltaTime)
    /\ UNCHANGED << queueVars, recVars, repVars, actVars, twinVars >>

NextGroup ==
    \/ GrAddAction
    \/ GrStart
    \/ GrPause
    \/ GrResume
    \/ GrStop
    \/ GrUpdate

SpecGroup == Init /\ [][NextGroup]_vars

\* Playback in the game: items are put together while the queue is Idle,
\* playback is started and ticked, and on some ticks the ball reaches the
\* finish cell, so that the onActionComplete handler stops the queue.
UpdateStopping ==
    /\ \E deltaTime \in Deltas : Becomes(QueueUpdateStopping(Q, deltaTime))
    /\ UNCHANGED << started, log, nUpd, frame >>

NextStopping ==
    \/ Author
    \/ Start
    \/ Update
    \/ UpdateStopping

SpecStopping == Init /\ [][NextStopping]_vars

\* A run whose frames are uneven: items of every kind are put together on a
\* fresh queue, start() is called once, and update() is then called with
\* half an action's duration or with three times as much (a frame that
\* took long, as after the tab was in the background).
LongDeltas == {ActionDuration \div 2, 3 * ActionDuration}

LongUpdate ==
    /\ started
    /\ nUpd < 2 * MaxSize
    /\ \E deltaTime \in LongDeltas :
          \E res \in {QueueUpdate(Q, deltaTime)} :
             /\ Becomes(res)
             /\ log' = log \o res.fired
    /\ nUpd' = nUpd + 1
    /\ UNCHANGED << started, frame >>

NextLong == RunAuthor \/ ScenarioStart \/ LongUpdate

SpecLong == Init /\ [][NextLong]_vars

\* Two queues side by side.  Both are given the same items; the second may
\* then be played once on its own, without interruption, until it is
\* Complete; from then on every start, update(deltaTime), pause and resume
\* call is made on both queues with the same arguments.
BothBecome(first, second, phase) ==
    /\ items' = first.q.items
    /\ state' = first.q.state
    /\ expandedActions' = first.q.expandedActions
    /\ expandedIndex' = first.q.expandedIndex
    /\ fired' = first.fired
    /\ path' = << state >> \o first.path
    /\ twin' = [q |-> second.q, fired |-> second.fired, phase |-> phase,
                replay |-> twin.replay]
    /\ UNCHANGED << started, log, nUpd, frame, expOut,
                    recVars, repVars, actVars, grpVars >>

SecondBecomes(second, phase) ==
    /\ twin' = [q |-> second.q, fired |-> second.fired, phase |-> phase,
                replay |-> TRUE]
    /\ UNCHANGED << queueVars, recVars, repVars, actVars, grpVars >>

TwAdd ==
    /\ twin.phase = "author"
    /\ \E item \in Addable :
          BothBecome(QueueAdd(Q, item), QueueAdd(twin.q, item), "author")

\* the second queue's own first run begins
TwFirstStart ==
    /\ twin.phase = "author"
    /\ StartSucceeds(QueueStart(twin.q))
    /\ SecondBecomes(QueueStart(twin.q), "first")

\* the second queue's own first run goes on, until it is Complete
TwFirstUpdate ==
    /\ twin.phase = "first"
    /\ \E deltaTime \in Deltas :
          \E second \in {QueueUpdate(twin.q, deltaTime)} :
             SecondBecomes(second,
                           IF second.q.state = COMPLETE THEN "played"
                           ELSE "first")

\* the calls made on both queues begin, or go on: the phase is "paired"
\* from the first of them and "both" from the first start() among them
Paired ==
    \/ twin.phase \in {"played", "paired", "both"}
    \/ twin.phase = "author" /\ Len(items) > 0

BeforeStart == IF twin.phase = "both" THEN "both" ELSE "paired"

TwStart ==
    /\ Paired
    /\ BothBecome(QueueStart(Q), QueueStart(twin.q), "both")

TwUpdate ==
    /\ Paired
    /\ \E deltaTime \in Deltas :
          BothBecome(QueueUpdate(Q, deltaTime),
                     QueueUpdate(twin.q, deltaTime), BeforeStart)

TwPause ==
    /\ Paired
    /\ BothBecome(QueuePause(Q), QueuePause(twin.q), BeforeStart)

TwResume ==
    /\ Paired
    /\ BothBecome(QueueResume(Q), QueueResume(twin.q), BeforeStart)

NextTwin ==
    \/ TwAdd
    \/ TwFirstStart
    \/ TwFirstUpdate
    \/ TwStart
    \/ TwUpdate
    \/ TwPause
    \/ TwResume

SpecTwin == Init /\ [][NextTwin]_vars

\* An Action on its own: it is constructed with any kind and any of the
\* durations, started, updated with a deltaTime >= 0 and reset.  The first
\* frame of the game loop hands update() a deltaTime of 0.
UpdateDeltas == {0} \cup Deltas

ActNew ==
    /\ \E type \in ActionType, duration \in Durations :
          act' = [action |-> NewAction(type, duration), called |-> "new"]
    /\ UNCHANGED << queueVars, recVars, repVars, grpVars, twinVars >>

ActStart ==
    /\ act' = [action |-> ActionStart(act.action), called |-> "start"]
    /\ UNCHANGED << queueVars, recVars, repVars, grpVars, twinVars >>

ActUpdate ==
    /\ act.action.progress < 2 * ActionDuration
    /\ \E deltaTime \in UpdateDeltas :
          act' = [action |-> ActionUpdate(act.action, deltaTime),
                  called |-> "update"]
    /\ UNCHANGED << queueVars, recVars, repVars, grpVars, twinVars >>

ActReset ==
    /\ act' = [action |-> ActionReset(act.action), called |-> "reset"]
    /\ UNCHANGED << queueVars, recVars, repVars, grpVars, twinVars >>

\* Action.fromJSON(action.toJSON()): the action is replaced by the one read
\* back from its own serialization; source keeps the action serialized
ActRoundTrip ==
    /\ act' = [action |-> ItemAction(ActionFromJSON(ActionToJSON(act.action))),
               called |-> "fromJSON", source |-> act.action]
    /\ UNCHANGED << queueVars, recVars, repVars, grpVars, twinVars >>

NextAction ==
    \/ ActNew
    \/ ActStart
    \/ ActUpdate
    \/ ActReset
    \/ ActRoundTrip

SpecAction == Init /\ [][NextAction]_vars


\* ====================================================================
\* Properties
\* ====================================================================

\* the items apart from their execution state, in order
ItemCores(its) == [i \in 1..Len(its) |-> ItemCore(its[i])]

Fired(cb) == \E i \in 1..Len(fired) : fired[i].cb = cb

\* C1: any call of start() on a queue whose items expand to at least one
\* step, in any state, leaves state = Running, expandedIndex = 0 and the
\* action of expanded step 0 executing with progress 0.
C1_StartRunsFromStepZero ==
    [][ (Start /\ Len(ExpandItems(items)) >= 1) =>
           /\ state' = RUNNING
           /\ expandedIndex' = 0
           /\ Len(expandedActions') >= 1
           /\ expandedActions'[1].action.isExecuting
           /\ expandedActions'[1].action.progress = 0 ]_vars

\* C2: in every state reachable through the public queue operations,
\* 0 <= expandedIndex <= expandedActions.length.
C2_CursorWithinExpansion ==
    /\ 0 <= expandedIndex
    /\ expandedIndex <= Len(expandedActions)

CountFired(l, cb) == Cardinality({ i \in 1..Len(l) : l[i].cb = cb })

\* the positions of the onActionComplete invocations of a callback sequence
CompletionsOf(l) == SelectSeq(l, LAMBDA e : e.cb = "onActionComplete")

\* C4: for a queue of n >= 1 plain actions of duration d, after start() and
\* k < n calls of update(d) the cursor is k and onActionComplete has fired
\* exactly k times, for items 0..k-1 in order; after the n-th call the queue
\* is Complete and onQueueComplete has fired exactly once; further update
\* calls fire no callback.
C4_ScenarioA ==
    started =>
       LET n == Len(items)
           done == CompletionsOf(log)
       IN /\ nUpd < n =>
               /\ state = RUNNING
               /\ expandedIndex = nUpd
               /\ Len(done) = nUpd
               /\ CountFired(log, "onQueueComplete") = 0
          /\ nUpd >= n =>
               /\ state = COMPLETE
               /\ Len(done) = n
               /\ CountFired(log, "onQueueComplete") = 1
          /\ \A i \in 1..Len(done) :
               done[i].at = i - 1 /\ done[i].itemIndex = i - 1
          /\ nUpd > n => fired = << >>

\* a two-action queue played to Complete and ticked once more
C4_Witness ==
    /\ started
    /\ Len(items) = 2
    /\ nUpd = 3
    /\ state = COMPLETE
    /\ Len(CompletionsOf(log)) = 2

\* C5 as claimed: state changes only along Idle->Running (start),
\* Running->Paused (pause), Paused->Running (resume), Running->Complete
\* (update) and any state->Idle (stop, clear, reset, or the auto-reset of
\* start from Complete).
C5_TransitionsAsListed ==
    [][ \A i \in 1..(Len(path') - 1) :
          LET a == path'[i]
              b == path'[i + 1]
          IN a # b =>
               \/ a = IDLE /\ b = RUNNING /\ Start
               \/ a = RUNNING /\ b = PAUSED /\ Pause
               \/ a = PAUSED /\ b = RUNNING /\ Resume
               \/ a = RUNNING /\ b = COMPLETE /\ Update
               \/ b = IDLE /\ \/ Stop
                              \/ Clear
                              \/ Reset
                              \/ Start /\ state = COMPLETE ]_vars

\* C5 as amended: the same transitions, and Paused->Running is taken by
\* resume or by start() called while Paused.
C5_TransitionsWithStartFromPaused ==
    [][ \A i \in 1..(Len(path') - 1) :
          LET a == path'[i]
              b == path'[i + 1]
          IN a # b =>
               \/ a = IDLE /\ b = RUNNING /\ Start
               \/ a = RUNNING /\ b = PAUSED /\ Pause
               \/ a = PAUSED /\ b = RUNNING /\ (Resume \/ Start)
               \/ a = RUNNING /\ b = COMPLETE /\ Update
               \/ b = IDLE /\ \/ Stop
                              \/ Clear
                              \/ Reset
                              \/ Start /\ state = COMPLETE ]_vars

\* start() called while Paused has put the queue back to Running
C5_Witness ==
    /\ path = << PAUSED, RUNNING >>
    /\ Fired("onActionStart")

\* C6: pause() then resume() on a Running queue, with nothing in between,
\* leaves state = Running and expandedIndex, expandedActions (so the current
\* action's progress and flags) and the items unchanged, and fires nothing.
C6_PauseResumeFrame ==
    [][ /\ (Pause /\ state = RUNNING) =>
              /\ state' = PAUSED
              /\ expandedIndex' = expandedIndex
              /\ expandedActions' = expandedActions
              /\ items' = items
              /\ fired' = << >>
        /\ (Resume /\ path = << RUNNING, PAUSED >>) =>
              /\ state' = RUNNING
              /\ expandedIndex' = expandedIndex
              /\ expandedActions' = expandedActions
              /\ items' = items
              /\ fired' = << >> ]_vars

\* resumed in the middle of the second step, half way through its action
C6_Witness ==
    /\ path = << PAUSED, RUNNING >>
    /\ fired = << >>
    /\ expandedIndex >= 1
    /\ expandedIndex < Len(expandedActions)
    /\ expandedActions[expandedIndex + 1].action.progress > 0
    /\ expandedActions[expandedIndex + 1].action.isExecuting

\* C7: stop() in any state leaves state = Idle, expandedIndex = 0,
\* expandedActions empty, every item's isExecuting/isComplete false, the
\* items' membership and order unchanged, and fires no onQueueComplete.
C7_StopResets ==
    [][ Stop =>
          /\ state' = IDLE
          /\ expandedIndex' = 0
          /\ expandedActions' = << >>
          /\ \A i \in 1..Len(items') :
                ~items'[i].isExecuting /\ ~items'[i].isComplete
          /\ ItemCores(items') = ItemCores(items)
          /\ \A i \in 1..Len(fired') : fired'[i].cb # "onQueueComplete" ]_vars

\* stop() called on a Complete queue of two items
C7_Witness ==
    /\ path = << COMPLETE, IDLE, IDLE >>
    /\ Len(items) = 2
    /\ state = IDLE


ClosingSlots == {"onRepeatComplete", "onGroupComplete", "onRecursionComplete"}

OpeningSlots == {"onRepeatStart", "onRepeatIteration", "onRecursionStart",
                 "onRecursionDepthChange", "onGroupStart"}

\* the place of a callback in the order the claims give
Rank(cb) ==
    IF cb = "onActionComplete" THEN 0
    ELSE IF cb \in ClosingSlots THEN 1
    ELSE IF cb \in OpeningSlots THEN 2
    ELSE IF cb \in {"onActionStart", "onQueueComplete"} THEN 3
    ELSE 4

\* C8: when an action completes inside update(), onActionComplete fires
\* first, then every closing callback the completed step's isLast* metadata
\* calls for, all with expandedIndex still at the completed step; only then
\* is expandedIndex incremented, and after that come the next step's opening
\* callbacks and onActionStart, or onQueueComplete.
C8_ClosingBeforeAdvance ==
    Fired("onActionComplete") =>
       LET k == fired[1].at
           done == expandedActions[k + 1]
       IN /\ fired[1].cb = "onActionComplete"
          /\ CountFired(fired, "onActionComplete") = 1
          /\ \A i \in 1..(Len(fired) - 1) :
                Rank(fired[i].cb) <= Rank(fired[i + 1].cb)
          /\ \A i \in 1..Len(fired) :
                /\ Rank(fired[i].cb) <= 1 => fired[i].at = k
                /\ Rank(fired[i].cb) \in {2, 3} => fired[i].at = k + 1
          /\ expandedIndex = k + 1
          /\ Fired("onRepeatComplete") <=> done.isLastInRepeat
          /\ Fired("onGroupComplete") <=> done.isLastInGroup
          /\ Fired("onRecursionComplete") <=> done.isLastInRecursion
          /\ Fired("onActionStart") <=> (k + 1 < Len(expandedActions))
          /\ Fired("onQueueComplete") <=> (k + 1 >= Len(expandedActions))

\* the last step of a group completed and the first of a repeat block began
C8_Witness ==
    /\ Fired("onActionComplete")
    /\ Fired("onGroupComplete")
    /\ Fired("onRepeatStart")
    /\ Fired("onRepeatIteration")
    /\ Fired("onActionStart")

\* the opening callbacks the metadata of a step asks for
Opens(step, cb) ==
    \/ cb = "onRepeatStart" /\ step.isFirstInRepeat
    \/ cb = "onRepeatIteration" /\ step.isFirstInIteration
    \/ cb = "onRecursionStart" /\ step.isFirstInRecursion
    \/ cb = "onRecursionDepthChange" /\ step.isFirstAtDepth
    \/ cb = "onGroupStart" /\ step.isFirstInGroup

\* C9: whenever a step becomes the current step (through start() or through
\* update()), every opening boundary callback that step opens fires before
\* the onActionStart of that step, and onActionStart fires exactly once.
C9_OpeningBeforeActionStart ==
    Fired("onActionStart") =>
       LET p == CHOOSE i \in 1..Len(fired) : fired[i].cb = "onActionStart"
           step == expandedActions[expandedIndex + 1]
       IN /\ CountFired(fired, "onActionStart") = 1
          /\ fired[p].at = expandedIndex
          /\ \A cb \in OpeningSlots :
                Opens(step, cb) <=>
                   \E i \in 1..(p - 1) :
                      fired[i].cb = cb /\ fired[i].at = expandedIndex
          /\ \A i \in (p + 1)..Len(fired) : fired[i].cb \notin OpeningSlots

\* update() moved the cursor onto the first step of a recursive reference
C9_Witness ==
    /\ Fired("onActionComplete")
    /\ Fired("onRecursionStart")
    /\ Fired("onRecursionDepthChange")
    /\ Fired("onActionStart")
    /\ expandedIndex >= 1

\* C10: during playback of a recursive reference, whenever the cursor moves
\* onto a step whose recursion depth differs from that of the previous step
\* of the same reference, on descent and on ascent alike,
\* onRecursionDepthChange fires with the new depth and phase.
C10_DepthChangeAnnounced ==
    (Fired("onActionComplete") /\ Fired("onActionStart")) =>
       LET cur == expandedActions[expandedIndex + 1]
           prev == expandedActions[expandedIndex]
       IN (/\ cur.isFromRecursion
           /\ prev.isFromRecursion
           /\ cur.itemIndex = prev.itemIndex
           /\ cur.recursionDepth # prev.recursionDepth)
          => \E i \in 1..Len(fired) :
                /\ fired[i].cb = "onRecursionDepthChange"
                /\ fired[i].depth = cur.recursionDepth
                /\ fired[i].phase = cur.recursionPhase

\* the onActionComplete callbacks in l are one per step of the expansion,
\* in the order of the expansion
OncePerStepInOrder(l) ==
    LET c == CompletionsOf(l)
    IN /\ Len(c) = Len(expandedActions)
       /\ \A k \in 1..Len(c) :
             /\ c[k].at = k - 1
             /\ c[k].itemIndex = expandedActions[k].itemIndex

\* C11: after a successful start() on a queue whose actions all have a
\* positive duration, with update() called frame after frame with a positive
\* delta and no pause, stop or clear in between, the queue reaches Complete
\* and stays there, and by then onActionComplete has fired exactly once per
\* expanded step, in expansion order.
C11_RunCompletes ==
    started ~> [](state = COMPLETE /\ OncePerStepInOrder(log))

\* a run over more than one item that took half-duration frames is Complete
C11_Witness ==
    /\ started
    /\ state = COMPLETE
    /\ Len(items) >= 2
    /\ nUpd > Len(expandedActions)
    /\ CountFired(log, "onActionComplete") = Len(expandedActions)

\* the code's progress (elapsed / duration) of b is above that of a
ProgressRose(a, b) ==
    \/ a.duration > 0 /\ b.progress > a.progress
    \/ a.duration < 0 /\ b.progress < a.progress

\* C12: an action whose duration is zero or negative cannot stall playback:
\* every update() with a positive delta on a running queue either completes
\* the action under the cursor or moves its progress towards 1, so repeated
\* updates complete every started action and the queue reaches Complete.
C12_UpdateMovesTowardsComplete ==
    [][(state = RUNNING /\ HasCurrent(Q) /\ frame' # frame)
       => LET before == GetCurrentItemInfo(Q).action
              after == expandedActions'[expandedIndex + 1].action
          IN after.isComplete \/ ProgressRose(before, after)]_vars

\* one of add's four wrappers is called
AnyAdd ==
    AddByType \/ AddGroupReference \/ AddRepeatBlock \/ AddRecursiveReference

\* the four fields of the queue are left as they were
QueueUnchanged ==
    /\ items' = items
    /\ state' = state
    /\ expandedActions' = expandedActions
    /\ expandedIndex' = expandedIndex

\* C13: add(item), through addByType, addGroupReference, addRepeatBlock or
\* addRecursiveReference, called while state = Running returns false, fires
\* no callback and leaves items, state, expandedActions and expandedIndex
\* unchanged.
C13_AddWhileRunningRejected ==
    [][(state = RUNNING /\ AnyAdd)
       => /\ QueueUnchanged
          /\ fired' = << >>
          /\ \A it \in Addable : ~QueueAddReturns(Q, it)]_vars

\* mid-playback, with room in the queue, an operation has just returned
\* without changing anything
C13_Witness ==
    /\ state = RUNNING
    /\ Len(items) >= 1 /\ Len(items) < MaxSize
    /\ expandedIndex >= 1
    /\ HasCurrent(Q)
    /\ GetCurrentItemInfo(Q).action.progress = 0
    /\ fired = << >>
    /\ path = << RUNNING >>

\* C14 (as stated): clear() called while state = Running is rejected: items
\* are left unchanged and state, expandedActions and expandedIndex are not
\* altered.
C14_ClearWhileRunningRejected ==
    [][(state = RUNNING /\ Clear) => QueueUnchanged]_vars

\* C14 (amended): clear() called while state = Running is not rejected: it
\* stops playback and empties the queue, leaving items and expandedActions
\* empty, expandedIndex = 0 and state = Idle; onQueueChange fires once and
\* onQueueComplete does not fire.
C14_ClearWhileRunningStops ==
    [][(state = RUNNING /\ Clear)
       => /\ items' = << >>
          /\ expandedActions' = << >>
          /\ expandedIndex' = 0
          /\ state' = IDLE
          /\ fired' = << BareEvent("onQueueChange", 0) >>]_vars

\* clear() has just stopped a running playback and emptied the queue
C14_Witness ==
    /\ started
    /\ path = << RUNNING, IDLE, IDLE, IDLE >>
    /\ state = IDLE
    /\ items = << >>
    /\ fired = << BareEvent("onQueueChange", 0) >>

\* removeAt(index) is called
RemoveAtIndex(index) ==
    /\ Becomes(QueueRemoveAt(Q, index))
    /\ UNCHANGED << started, log, nUpd, frame >>

\* items without the item at the 0-based position index, the others in order
Without(its, index) ==
    SubSeq(its, 1, index) \o SubSeq(its, index + 2, Len(its))

StepIsFresh(steps, k) ==
    /\ ~steps[k].action.isExecuting
    /\ ~steps[k].action.isComplete
    /\ steps[k].action.progress = 0

C17_ItemsWithinMaxSize ==
    /\ [](Len(items) <= MaxSize)
    /\ [][(AnyAdd /\ Len(items) >= MaxSize)
          => /\ items' = items
             /\ \A it \in Addable : ~QueueAddReturns(Q, it)]_vars

\* fromJSON has just filled the queue to maxSize, one add() at a time
C17_Witness ==
    /\ Len(items) = MaxSize
    /\ CountFired(fired, "onQueueChange") = MaxSize + 1

\* the actions of acts tagged with depth d and the phase
Tagged(acts, d, phase) ==
    [i \in 1..Len(acts) |-> [type |-> acts[i].type, depth |-> d, phase |-> phase]]

\* pre(d) ++ pre(d + 1) ++ ... ++ pre(D - 1)
RECURSIVE PreRuns(_, _)
PreRuns(g, d) ==
    IF d >= g.maxDepth THEN << >>
    ELSE Tagged(g.preActions, d, "pre") \o PreRuns(g, d + 1)

\* post(d) ++ post(d - 1) ++ ... ++ post(0)
RECURSIVE PostRuns(_, _)
PostRuns(g, d) ==
    IF d < 0 THEN << >>
    ELSE Tagged(g.postActions, d, "post") \o PostRuns(g, d - 1)

\* type, depth and phase of each entry of an expansion
Tags(expansion) ==
    [k \in 1..Len(expansion) |->
       [type |-> expansion[k].action.type, depth |-> expansion[k].depth,
        phase |-> expansion[k].phase]]

\* C18: for a RecursiveGroup with maxDepth = D, getExpandedActions() is
\* pre(0) ++ pre(1) ++ ... ++ pre(D-1) ++ post(D-1) ++ ... ++ post(1) ++
\* post(0), pre(d) and post(d) being the pre- and post-actions tagged with
\* depth d and phase pre or post; for D = 1 it is preActions ++ postActions.
C18_ExpansionIsPreThenPost ==
    rgOut.valid
    => /\ Tags(rgOut.actions) = PreRuns(rg, 0) \o PostRuns(rg, rg.maxDepth - 1)
       /\ rg.maxDepth = 1
          => [k \in 1..Len(rgOut.actions) |-> rgOut.actions[k].action]
             = [i \in 1..Len(rg.preActions) |-> ActionClone(rg.preActions[i])]
               \o [i \in 1..Len(rg.postActions) |->
                      ActionClone(rg.postActions[i])]

\* scenario C: pre = [Right], post = [Down], maxDepth = 2 has been expanded
\* to Right(d0), Right(d1), Down(d1, base case), Down(d0)
C18_Witness ==
    /\ rgOut.valid
    /\ rg.maxDepth = 2
    /\ Tags(rgOut.actions) =
          << [type |-> "MOVE_RIGHT", depth |-> 0, phase |-> "pre"],
             [type |-> "MOVE_RIGHT", depth |-> 1, phase |-> "pre"],
             [type |-> "MOVE_DOWN", depth |-> 1, phase |-> "post"],
             [type |-> "MOVE_DOWN", depth |-> 0, phase |-> "post"] >>
    /\ rgOut.actions[3].isBaseCase

\* C19: for every RecursiveGroup the length of getExpandedActions() is
\* (|preActions| + |postActions|) * maxDepth and equals
\* getTotalActionCount(); with one pre-action and one post-action it is
\* 2 * maxDepth.
C19_ExpansionLength ==
    rgOut.valid
    => /\ Len(rgOut.actions)
            = (Len(rg.preActions) + Len(rg.postActions)) * rg.maxDepth
       /\ Len(rgOut.actions) = rgOut.total
       /\ (Len(rg.preActions) = 1 /\ Len(rg.postActions) = 1)
          => Len(rgOut.actions) = 2 * rg.maxDepth

\* C20: maxDepth of a RecursiveGroup is within 1..MAX_RECURSION_DEPTH in
\* every reachable state, whatever setMaxDepth is given and whichever of the
\* constructor, clone and fromJSON made the group.
C20_MaxDepthInRange ==
    rg.maxDepth >= 1 /\ rg.maxDepth <= MAX_RECURSION_DEPTH

\* ---------------------------------------------------------------------
\* C21: the count of a RepeatBlock is within 1..MAX_REPETITIONS in every
\* reachable state, whatever integer the constructor, setCount and the game
\* were handed and however often it was incremented, decremented and cloned.
C21_CountInRange ==
    rb.count \in 1..MAX_REPETITIONS

\* a block whose count was clamped up to 1 and one clamped down to the maximum
C21_Witness ==
    /\ rb.count = MAX_REPETITIONS
    /\ Len(rb.items) = MAX_ITEMS_IN_REPEAT
    /\ rbOut.valid

\* ---------------------------------------------------------------------
\* C22: a RepeatBlock never holds more than MAX_ITEMS_IN_REPEAT items; an
\* addItem call on a full block returns false and leaves items as they
\* were, and an addItem call on a block that is not full returns true and
\* appends exactly one item.
C22_AddItemBounded ==
    /\ [](Len(rb.items) <= MAX_ITEMS_IN_REPEAT)
    /\ [][rbOut'.returned # "none"
          => /\ Len(rb.items) = MAX_ITEMS_IN_REPEAT
                => /\ rbOut'.returned = "false"
                   /\ rb'.items = rb.items
             /\ Len(rb.items) < MAX_ITEMS_IN_REPEAT
                => /\ rbOut'.returned = "true"
                   /\ Len(rb'.items) = Len(rb.items) + 1
                   /\ SubSeq(rb'.items, 1, Len(rb.items)) = rb.items]_vars

\* addItem was called on a full block and refused
C22_Witness ==
    /\ rbOut.returned = "false"
    /\ Len(rb.items) = MAX_ITEMS_IN_REPEAT

\* ---------------------------------------------------------------------
\* C23: a RepeatBlock holds only plain actions and group references, and
\* every entry of its expansion carries an atomic Action.
IsAtomicAction(a) ==
    DOMAIN a = {"type", "duration", "isExecuting", "isComplete", "progress"}

C23_OnlyActionsAndGroupRefs ==
    /\ \A i \in 1..Len(rb.items) : rb.items[i].kind \in {"action", "groupRef"}
    /\ rbOut.valid
       => \A k \in 1..Len(rbOut.actions) :
             IsAtomicAction(rbOut.actions[k].action)

\* ---------------------------------------------------------------------
\* C24: for a RepeatBlock of count N whose items are plain actions and group
\* references and flatten to the kind sequence S (a plain action is itself,
\* a group reference is its group's actions in order), getExpandedActions()
\* is S repeated N times, iteration-major and item-minor, and entry j
\* (counted from 0) is tagged iteration = floor(j / |S|); with one plain
\* action the length is N and the iterations are 0..N-1 in order.
RECURSIVE FlatKinds(_)
FlatKinds(its) ==
    IF its = << >>
    THEN << >>
    ELSE (IF Head(its).kind = "groupRef"
          THEN [i \in 1..Len(GroupTemplates[Head(its).group]) |->
                  GroupTemplates[Head(its).group][i].type]
          ELSE << Head(its).type >>)
         \o FlatKinds(Tail(its))

C24_ExpansionIsRepeatedSequence ==
    (/\ rbOut.valid
     /\ \A i \in 1..Len(rb.items) : rb.items[i].kind \in {"action", "groupRef"})
    => LET S == FlatKinds(rb.items)
           out == rbOut.actions
       IN /\ Len(out) = rb.count * Len(S)
          /\ \A j \in 0..(Len(out) - 1) :
                /\ out[j + 1].action.type = S[(j % Len(S)) + 1]
                /\ out[j + 1].iteration = j \div Len(S)
          /\ (Len(rb.items) = 1 /\ rb.items[1].kind = "action")
             => /\ Len(out) = rb.count
                /\ \A j \in 0..(rb.count - 1) : out[j + 1].iteration = j

\* a block of a plain action and a group reference, repeated, was expanded
C24_Witness ==
    /\ rbOut.valid
    /\ rb.count > RepCount
    /\ Len(rb.items) = 2
    /\ rb.items[1].kind = "action"
    /\ rb.items[2].kind = "groupRef"
    /\ Len(rbOut.actions) = 3 * rb.count

\* ---------------------------------------------------------------------
\* C25: the steps expandItems() produces for a repeat block are all tagged
\* isFromRepeat with totalIterations = count; isFirstInRepeat is true only
\* on the block's first step and isLastInRepeat only on its last;
\* isFirstInIteration is true exactly on the first step of each iteration
\* and isLastInIteration exactly on the last step of each iteration.
StepsOf(exp, i) == { k \in 1..Len(exp) : exp[k].itemIndex = i - 1 }

FirstOf(S) == CHOOSE k \in S : \A m \in S : k <= m
LastOf(S) == CHOOSE k \in S : \A m \in S : k >= m

C25_RepeatStepFlags ==
    expOut.calls > 0
    => \A i \in 1..Len(items) :
          items[i].kind = "repeat"
          => LET exp == expOut.result
                 S == StepsOf(exp, i)
                 size == Len(FlatKinds(items[i].items))
             IN \A k \in S :
                   LET p == k - FirstOf(S)
                   IN /\ exp[k].isFromRepeat
                      /\ exp[k].totalIterations = items[i].count
                      /\ exp[k].iteration = p \div size
                      /\ exp[k].isFirstInRepeat <=> (k = FirstOf(S))
                      /\ exp[k].isLastInRepeat <=> (k = LastOf(S))
                      /\ exp[k].isFirstInIteration <=> (p % size = 0)
                      /\ exp[k].isLastInIteration <=> (p % size = size - 1)

\* a block of count above RepCount with three steps to the iteration,
\* expanded behind another item
C25_Witness ==
    /\ expOut.calls > 0
    /\ Len(items) = 2
    /\ items[2].kind = "repeat"
    /\ items[2].count = RepCount + 1
    /\ Len(FlatKinds(items[2].items)) = 3
    /\ Cardinality(StepsOf(expOut.result, 2)) = 3 * (RepCount + 1)

\* ---------------------------------------------------------------------
\* C26: in the result of expandItems() every step's itemIndex is the index
\* in items of the item it came from: the values are non-decreasing along
\* the expansion, the steps of one item are contiguous, and the number of
\* steps with itemIndex = i is the expansion length of items[i]: 1 for a
\* plain action, the group's size for a group reference, count times the
\* flattened size for a repeat block, and (|pre| + |post|) * maxDepth for a
\* recursive reference.
ExpansionLength(item) ==
    IF item.kind = "action" THEN 1
    ELSE IF item.kind = "groupRef" THEN Len(GroupTemplates[item.group])
    ELSE IF item.kind = "repeat" THEN item.count * Len(FlatKinds(item.items))
    ELSE LET group == RecursiveTemplates[item.group]
         IN (Len(group.preActions) + Len(group.postActions)) * group.maxDepth

C26_ItemIndexMapsBack ==
    expOut.calls > 0
    => LET exp == expOut.result
       IN /\ \A k \in 1..Len(exp) : exp[k].itemIndex \in 0..(Len(items) - 1)
          /\ \A k \in 1..(Len(exp) - 1) :
                exp[k].itemIndex <= exp[k + 1].itemIndex
          /\ \A i \in 1..Len(items) :
                /\ Cardinality(StepsOf(exp, i)) = ExpansionLength(items[i])
                /\ \A k, m \in StepsOf(exp, i) :
                      \A n \in k..m : n \in StepsOf(exp, i)
          /\ \A k \in 1..Len(exp) :
                LET kind == items[exp[k].itemIndex + 1].kind
                IN /\ exp[k].isFromRepeat <=> (kind = "repeat")
                   /\ exp[k].isFromGroup <=> (kind = "groupRef")
                   /\ exp[k].isFromRecursion <=> (kind = "recRef")

\* a recursive reference and a repeat block, expanded to four and six steps
C26_Witness ==
    /\ expOut.calls > 0
    /\ Len(items) = 2
    /\ items[1].kind = "recRef"
    /\ items[2].kind = "repeat"
    /\ Cardinality(StepsOf(expOut.result, 1)) = 2 * RecDepth
    /\ Cardinality(StepsOf(expOut.result, 2)) = 2 * (RepCount + 1)

C28_TotalActionsIsExpansionLength ==
    TotalActions(Q) = Len(ExpandItems(items))

\* ---------------------------------------------------------------------
\* C29: playback never changes a group's own actions: whatever start,
\* update, pause, resume and stop have been called on a queue holding
\* references to the group, every action of the group has progress 0 and is
\* neither executing nor complete; and the steps made for two references to
\* the same group hold distinct Action objects, none of them the group's
\* own, whose progress moves independently: while the cursor is on one step,
\* the actions of the steps after it are untouched.
Untouched(a) == a.progress = 0 /\ ~a.isExecuting /\ ~a.isComplete

C29_TemplatesUntouched ==
    /\ \A k \in 1..Len(gp.actions) : Untouched(gp.actions[k])
    /\ \A i \in 1..Len(gp.steps) :
          /\ ~gp.steps[i].template
          /\ \A j \in 1..Len(gp.steps) :
                i # j => gp.steps[i].at # gp.steps[j].at
          /\ i > gp.index + 1 => Untouched(Deref(gp, gp.steps[i]))

\* the first reference has been played to the end and the second is under
\* way
C29_Witness ==
    /\ Len(gp.actions) = MaxBase
    /\ gp.refs[1].isComplete
    /\ gp.refs[2].isExecuting
    /\ gp.index = MaxBase
    /\ Deref(gp, gp.steps[1]).isComplete
    /\ Deref(gp, gp.steps[gp.index + 1]).progress > 0

\* ---------------------------------------------------------------------
\* C30: for every Action and every sequence of start, update(delta >= 0) and
\* reset calls on it, progress stays within [0,1] and never decreases from
\* one update to the next while the action is executing; the action is
\* never both executing and complete; and it is complete exactly when its
\* progress has reached 1 since the last start.
\* progress is the elapsed time credited to the action, the code's progress
\* times duration: 0 <= progress <= 1 in the code is elapsed between 0 and
\* duration here (for a zero duration, elapsed is 0 and the value 1 exists
\* only as the clamp that completes the action).
ProgressInUnit(a) ==
    /\ a.progress # NaN
    /\ \/ a.duration >= 0 /\ 0 <= a.progress /\ a.progress <= a.duration
       \/ a.duration < 0 /\ a.duration <= a.progress /\ a.progress <= 0

ProgressIsOne(a) ==
    IF a.duration = 0 THEN a.isComplete ELSE a.progress = a.duration

NotDecreased(a, b) ==
    /\ a.progress # NaN
    /\ b.progress # NaN
    /\ \/ a.duration > 0 /\ a.progress <= b.progress
       \/ a.duration < 0 /\ a.progress >= b.progress
       \/ a.duration = 0

C30_ActionInvariant ==
    /\ [](/\ ProgressInUnit(act.action)
          /\ ~(act.action.isExecuting /\ act.action.isComplete)
          /\ act.action.isComplete <=> ProgressIsOne(act.action))
    /\ [][(act'.called = "update" /\ act.action.isExecuting)
          => NotDecreased(act.action, act'.action)]_vars

\* ---------------------------------------------------------------------
\* C31: for every Action a, in any execution state,
\* Action.fromJSON(a.toJSON()) has the same type and duration as a and
\* fresh execution state (progress 0, not executing, not complete).
C31_RoundTrip ==
    act.called = "fromJSON" =>
        /\ act.action.type = act.source.type
        /\ act.action.duration = act.source.duration
        /\ act.action.progress = 0
        /\ ~act.action.isExecuting
        /\ ~act.action.isComplete

\* an action in the middle of its execution, with a duration other than the
\* default, is serialized and read back
C31_Witness ==
    /\ act.called = "fromJSON"
    /\ act.source.isExecuting
    /\ act.source.progress # 0
    /\ act.source.duration # ActionDuration
    /\ act.action = NewAction(act.source.type, act.source.duration)

\* ---------------------------------------------------------------------
\* C32: playback is deterministic: two queues holding the same sequence of
\* items and driven by the same sequence of start, update(delta), pause and
\* resume calls produce the same sequence of callbacks with the same
\* arguments (step index, iteration, depth, phase) and end in the same state
\* and cursor; in particular replaying a Complete queue with start()
\* reproduces the trace of the first run.
\* The second queue is either as fresh as the first or Complete after a run
\* of its own; every call made on both invokes the same callbacks on both,
\* and from the first start() on both are in the same state, at the same
\* cursor in the same expansion.
C32_Deterministic ==
    /\ twin.phase \in {"paired", "both"} => twin.fired = fired
    /\ twin.phase = "both" =>
          /\ twin.q.state = state
          /\ twin.q.expandedIndex = expandedIndex
          /\ twin.q.expandedActions = expandedActions

\* the first queue completes its first run at the moment the second, which
\* had been played to Complete before, completes its replay
C32_Witness ==
    /\ twin.phase = "both"
    /\ state = COMPLETE
    /\ twin.q.state = COMPLETE
    /\ twin.fired = fired
    /\ \E i \in 1..Len(fired) : fired[i].cb = "onQueueComplete"
    /\ \E i \in 1..Len(fired) : fired[i].cb = "onRepeatComplete"
    /\ twin.replay

\* ---------------------------------------------------------------------
\* C33: if a callback handler calls stop() on the queue while update() is in
\* progress (for example from onActionComplete, as the game does when the
\* ball reaches the finish cell), then when update() returns the queue is
\* Idle with expandedIndex = 0 and empty expandedActions, and
\* onQueueComplete has not fired for that run.
\* The last operation was an update() in which stop() was called: it fired
\* onActionComplete and assigned Idle to state.
StoppedInsideUpdate ==
    /\ \E i \in 1..Len(fired) : fired[i].cb = "onActionComplete"
    /\ \E i \in 2..Len(path) : path[i] = IDLE

C33_StopInsideUpdateLeavesIdle ==
    StoppedInsideUpdate =>
        /\ state = IDLE
        /\ expandedIndex = 0
        /\ expandedActions = << >>
        /\ \A i \in 1..Len(fired) : fired[i].cb # "onQueueComplete"

\* ---------------------------------------------------------------------
\* C34: whenever state is Running or Paused, expandedActions is exactly the
\* expansion of the current items (same length, same action kinds, every
\* step's itemIndex < items.length and pointing at the item it came from),
\* including after add and removeAt calls made while Paused.
C34_ExpansionMatchesItems ==
    state \in {RUNNING, PAUSED} =>
        LET current == ExpandItems(items)
        IN /\ Len(expandedActions) = Len(current)
           /\ \A k \in 1..Len(expandedActions) :
                 /\ k <= Len(current)
                 /\ expandedActions[k].action.type = current[k].action.type
                 /\ expandedActions[k].itemIndex = current[k].itemIndex
                 /\ expandedActions[k].itemIndex < Len(items)
                 /\ expandedActions[k].obj = expandedActions[k].itemIndex + 1

\* ---------------------------------------------------------------------
\* C35: whenever state is Running between two public calls, a current step
\* exists (expandedIndex < expandedActions.length), its action is executing
\* and not complete, and no other step in expandedActions has an executing
\* action.
C35_RunningHasOneExecutingStep ==
    state = RUNNING =>
        /\ HasCurrent(Q)
        /\ GetCurrentItemInfo(Q).action.isExecuting
        /\ ~GetCurrentItemInfo(Q).action.isComplete
        /\ \A k \in 1..Len(expandedActions) :
              k # expandedIndex + 1 => ~expandedActions[k].action.isExecuting

\* ---------------------------------------------------------------------
\* C36: in an uninterrupted playback from start() to Complete, for each
\* repeat block with a non-empty expansion onRepeatStart fires exactly once,
\* then onRepeatIteration exactly count times with iteration = 0, 1, ...,
\* count - 1 in order, then onRepeatComplete exactly once; for each group
\* reference and each recursive reference the start and complete callbacks
\* fire exactly once each, start before complete; and the boundary
\* callbacks of two different top-level items never interleave.
\* the callbacks among cbs that were invoked for the item at itemIndex
BoundaryOf(itemIndex, cbs) ==
    SelectSeq(log, LAMBDA e : e.itemIndex = itemIndex /\ e.cb \in cbs)

RepeatBoundary(itemIndex, count) ==
    LET b == BoundaryOf(itemIndex, {"onRepeatStart", "onRepeatIteration",
                                    "onRepeatComplete"})
    IN /\ Len(b) = count + 2
       /\ b[1].cb = "onRepeatStart"
       /\ \A k \in 1..count :
             b[k + 1].cb = "onRepeatIteration" /\ b[k + 1].iteration = k - 1
       /\ b[count + 2].cb = "onRepeatComplete"

StartThenComplete(itemIndex, first, last) ==
    LET b == BoundaryOf(itemIndex, {first, last})
    IN Len(b) = 2 /\ b[1].cb = first /\ b[2].cb = last

ItemsInTurn ==
    LET b == SelectSeq(log, LAMBDA e : e.cb \in OpeningSlots \cup ClosingSlots)
    IN \A j \in 1..Len(b) : \A k \in j..Len(b) :
          b[j].itemIndex <= b[k].itemIndex

C37_OneStepPerUpdate ==
    [][(started /\ nUpd' = nUpd + 1) =>
         /\ expandedIndex' <= expandedIndex + 1
         /\ CountFired(fired', "onActionComplete") <= 1
         /\ (expandedIndex' = expandedIndex + 1
               /\ expandedIndex' < Len(expandedActions'))
             => /\ expandedActions'[expandedIndex' + 1].action.progress = 0
                /\ expandedActions'[expandedIndex' + 1].action.isExecuting]_vars

\* the first update() after start() is three durations long: it has
\* completed step 0 alone, and step 1 is under way at progress 0
C37_Witness ==
    /\ started
    /\ nUpd = 1
    /\ state = RUNNING
    /\ expandedIndex = 1
    /\ Len(expandedActions) > 2
    /\ CountFired(fired, "onActionComplete") = 1
    /\ expandedActions[1].action.isComplete
    /\ expandedActions[2].action.isExecuting
    /\ expandedActions[2].action.progress = 0

\* ---------------------------------------------------------------------
\* C38: update() called while state is Idle, Paused or Complete changes
\* nothing (state, expandedIndex, expandedActions, item and action flags all
\* unchanged), fires no callback, and returns a result whose action is null
\* and actionComplete is false.
C38_UpdateOnlyWhileRunning ==
    [][(state # RUNNING /\ Update)
       => /\ QueueUnchanged
          /\ fired' = << >>
          /\ path' = << state >>
          /\ \A deltaTime \in Deltas :
                QueueUpdateReturns(Q, deltaTime)
                    = [action |-> "null", actionComplete |-> FALSE]]_vars

\* paused in the middle of the second step, update() has just been called
\* and has left the step where it was
C38_Witness ==
    /\ state = PAUSED
    /\ path = << PAUSED >>
    /\ fired = << >>
    /\ expandedIndex = 1
    /\ GetCurrentItemInfo(Q).action.isExecuting
    /\ GetCurrentItemInfo(Q).action.progress = ActionDuration \div 2

\* ---------------------------------------------------------------------
\* C39: in every RecursiveGroup expansion with maxDepth = D, isFirstAtDepth
\* is true exactly on the first pre-action of each depth 0..D-1,
\* isLastAtDepth is true exactly on the last post-action of each depth, and
\* isBaseCase is true exactly on the first post-action at depth D-1 and on
\* no other entry; in the queue's expansion isFirstInRecursion and
\* isLastInRecursion are true exactly on the first and the last step of each
\* recursive reference.
\* The pre-actions of a depth follow those of the depth above, and the
\* post-actions of a depth are followed by those of the depth above: an
\* entry is the first pre-action of its depth when no entry of that depth
\* comes just before it, and the last post-action when none comes just
\* after.
FlaggedAt(er, depth, flag) ==
    Cardinality({ k \in 1..Len(er) : er[k].depth = depth /\ er[k][flag] })

C39_RecursionFlags ==
    rgOut.valid =>
        LET er == rgOut.actions
            steps == rgOut.steps
        IN /\ \A k \in 1..Len(er) :
                 /\ er[k].isFirstAtDepth <=>
                       /\ er[k].phase = "pre"
                       /\ (k = 1 \/ er[k - 1].depth # er[k].depth)
                 /\ er[k].isLastAtDepth <=>
                       /\ er[k].phase = "post"
                       /\ (k = Len(er) \/ er[k + 1].depth # er[k].depth)
                 /\ er[k].isBaseCase <=>
                       /\ er[k].phase = "post"
                       /\ er[k].depth = rg.maxDepth - 1
                       /\ (k = 1 \/ er[k - 1].phase = "pre")
           /\ \A depth \in 0..(rg.maxDepth - 1) :
                 /\ FlaggedAt(er, depth, "isFirstAtDepth")
                       = IF Len(rg.preActions) > 0 THEN 1 ELSE 0
                 /\ FlaggedAt(er, depth, "isLastAtDepth")
                       = IF Len(rg.postActions) > 0 THEN 1 ELSE 0
                 /\ FlaggedAt(er, depth, "isBaseCase")
                       = IF Len(rg.postActions) > 0 /\ depth = rg.maxDepth - 1
                         THEN 1 ELSE 0
           /\ \A k \in 1..Len(steps) :
                 /\ steps[k].isFirstInRecursion <=>
                       (k = 1 \/ steps[k - 1].itemIndex # steps[k].itemIndex)
                 /\ steps[k].isLastInRecursion <=>
                       (k = Len(steps)
                        \/ steps[k + 1].itemIndex # steps[k].itemIndex)

\* two pre-actions and two post-actions at maxDepth 2: pre pre | pre pre |
\* post post | post post, and the same again for the second reference
C39_Witness ==
    /\ rgOut.valid
    /\ rg.maxDepth = 2
    /\ Len(rg.preActions) = 2
    /\ Len(rg.postActions) = 2
    /\ rgOut.actions[3].isFirstAtDepth
    /\ rgOut.actions[5].isBaseCase
    /\ ~rgOut.actions[6].isBaseCase
    /\ rgOut.actions[6].isLastAtDepth
    /\ Len(rgOut.steps) = 16
    /\ rgOut.steps[8].isLastInRecursion
    /\ rgOut.steps[9].isFirstInRecursion

\* ---------------------------------------------------------------------
\* C40: removeAt(index) with index < 0 or index >= items.length, and
\* removeLast() on an empty queue, return null, leave items and state
\* unchanged, and do not fire onQueueChange; no queue operation throws for
\* these rejected inputs.
C40_BadIndexRejected ==
    [][/\ \A index \in {-1} \cup (Len(items)..MaxSize) :
             RemoveAtIndex(index)
             => /\ QueueUnchanged
                /\ fired' = << >>
                /\ path' = << state >>
                /\ QueueRemoveAtReturns(Q, index) = << >>
       /\ (Len(items) = 0 /\ RemoveLast)
             => /\ QueueUnchanged
                /\ fired' = << >>
                /\ QueueRemoveAtReturns(Q, Len(items) - 1) = << >>]_vars

\* a removal has just been refused on a Complete queue that holds items: it
\* fired nothing and assigned nothing to state
C40_Witness ==
    /\ state = COMPLETE
    /\ Len(items) > 0
    /\ Len(items) < MaxSize
    /\ fired = << >>
    /\ path = << COMPLETE >>
    /\ \A index \in {-1} \cup (Len(items)..MaxSize) :
          QueueRemoveAt(Q, index).q = Q
====
